---- MODULE Spec2Model ----
(***************************************************************************)
(* ComfyUI-MagnifyGlass (src/web/magnify_glass.js): the magnifier's state  *)
(* machine (activation, pointer tracking, manual offsets), the sample      *)
(* rectangle computation, single-flight frame scheduling and the HTML      *)
(* overlay compositor.                                                     *)
(*                                                                         *)
(* JavaScript numbers are modelled as exact rationals [n, d] in lowest     *)
(* terms, extended with the non-finite values of IEEE arithmetic:          *)
(* d = 0 and n = 0 is NaN, d = 0 and n = 1 / -1 is +Infinity / -Infinity.  *)
(* The inputs are chosen (integers, power-of-two host scales, divisors of  *)
(* the glass size) so that double arithmetic on them is exact as well.     *)
(***************************************************************************)
EXTENDS Integers, Sequences, FiniteSets, TLC

VARIABLES
    phase,                  \* position of init(): "setup", "waiting", "ready", "failed"
    hostReady,              \* LiteGraph, app and app.canvas are defined
    retries,                \* init() retries taken so far
    glassDiv,               \* ui.glassDiv: "null", "attached", "removed"
    glassDisplay,           \* ui.glassDiv.style.display: "none", "block"
    renderer,               \* magnifyGlass.renderer: "null", "valid", "invalid"
    litegraphCanvas,        \* magnifyGlass.litegraphCanvas is set
    listeners,              \* number of times attachListeners ran
    config,                 \* ConfigManager fields
    state,                  \* MagnifierState fields
    lastKnownMousePosition, \* magnifyGlass.lastKnownMousePosition
    ds,                     \* host transform app.canvas.ds (scale, offset)
    rafQueue,               \* frame callbacks pending in requestAnimationFrame
    htmlOverlay,            \* children of ui.htmlOverlayContainer, in order
    localStorage,           \* the two persisted offset items
    frame,                  \* what the most recent frame tick did
    call                    \* arguments and results of a rectsOverlap call

vars == <<phase, hostReady, retries, glassDiv, glassDisplay, renderer,
          litegraphCanvas, listeners, config, state, lastKnownMousePosition,
          ds, rafQueue, htmlOverlay, localStorage, frame, call>>

-----------------------------------------------------------------------------
(* JavaScript number arithmetic *)

Abs(i) == IF i < 0 THEN -i ELSE i

Sign(i) == IF i > 0 THEN 1 ELSE IF i < 0 THEN -1 ELSE 0

RECURSIVE Gcd(_, _)
Gcd(a, b) == IF b = 0 THEN a ELSE Gcd(b, a % b)

\* the number n/d in lowest terms with d >= 0; n/0 is NaN or an infinity
Norm(n, d) ==
    IF d = 0 THEN [n |-> Sign(n), d |-> 0]
    ELSE LET s == IF d < 0 THEN -1 ELSE 1
             g == Gcd(Abs(n), Abs(d))
         IN  [n |-> (s * n) \div g, d |-> (s * d) \div g]

Num(i) == [n |-> i, d |-> 1]

NaN == [n |-> 0, d |-> 0]

IsNaN(a) == a.d = 0 /\ a.n = 0

IsFinite(a) == a.d # 0

Add(a, b) ==
    IF a.d = 0 /\ b.d = 0
    THEN (IF a.n = b.n THEN a ELSE NaN)
    ELSE Norm(a.n * b.d + b.n * a.d, a.d * b.d)

Neg(a) == [n |-> -a.n, d |-> a.d]

Sub(a, b) == Add(a, Neg(b))

Mul(a, b) == Norm(a.n * b.n, a.d * b.d)

Div(a, b) ==
    LET s == IF b.n < 0 THEN -1 ELSE 1
    IN  Norm(s * a.n * b.d, s * a.d * b.n)

\* a < b; every comparison with NaN is false
Lt(a, b) ==
    /\ ~IsNaN(a)
    /\ ~IsNaN(b)
    /\ IF a.d = 0 \/ b.d = 0
       THEN (IF a.d = 0 /\ b.d = 0 THEN a.n < b.n
             ELSE IF a.d = 0 THEN a.n < 0 ELSE b.n > 0)
       ELSE a.n * b.d < b.n * a.d

Gt(a, b) == Lt(b, a)

\* a <= b
Le(a, b) == ~IsNaN(a) /\ ~IsNaN(b) /\ ~Lt(b, a)

Ge(a, b) == Le(b, a)

\* parseInt(v, 10) of a number: its integer part, NaN when it has none
ParseIntOfNumber(a) ==
    IF a.d = 0 THEN NaN
    ELSE Num(Sign(a.n) * (Abs(a.n) \div a.d))

\* parseFloat(v) of a number
ParseFloatOfNumber(a) == IF a.d = 0 /\ a.n = 0 THEN NaN ELSE a

-----------------------------------------------------------------------------
(* Strings held by localStorage: sequences of one-character strings *)

Digits == <<"0", "1", "2", "3", "4", "5", "6", "7", "8", "9">>

IsDigit(c) == \E i \in 1..10 : Digits[i] = c

DigitValue(c) == (CHOOSE i \in 1..10 : Digits[i] = c) - 1

RECURSIVE NatToString(_)
NatToString(i) ==
    IF i < 10 THEN <<Digits[i + 1]>>
    ELSE NatToString(i \div 10) \o <<Digits[(i % 10) + 1]>>

\* Number.prototype.toString() of an integer-valued or non-finite number
NumberToString(a) ==
    IF a.d = 0
    THEN (IF a.n = 0 THEN <<"N", "a", "N">>
          ELSE IF a.n > 0 THEN <<"I", "n", "f", "i", "n", "i", "t", "y">>
          ELSE <<"-", "I", "n", "f", "i", "n", "i", "t", "y">>)
    ELSE IF a.n < 0 THEN <<"-">> \o NatToString(Abs(a.n) \div a.d)
    ELSE NatToString(a.n \div a.d)

RECURSIVE SkipSpaces(_)
SkipSpaces(s) ==
    IF s # <<>> /\ Head(s) = " " THEN SkipSpaces(Tail(s)) ELSE s

\* value of the longest prefix of decimal digits of s, -1 when s starts with none
RECURSIVE DigitPrefix(_, _)
DigitPrefix(s, acc) ==
    IF s # <<>> /\ IsDigit(Head(s))
    THEN DigitPrefix(Tail(s), (IF acc < 0 THEN 0 ELSE acc * 10) + DigitValue(Head(s)))
    ELSE acc

\* parseInt(s, 10) of a string
ParseInt(s) ==
    LET t    == SkipSpaces(s)
        neg  == t # <<>> /\ Head(t) = "-"
        body == IF t # <<>> /\ Head(t) \in {"-", "+"} THEN Tail(t) ELSE t
        v    == DigitPrefix(body, -1)
    IN  IF v < 0 THEN NaN ELSE Num(IF neg THEN -v ELSE v)

NoItem == [set |-> FALSE, val |-> <<>>]

Item(s) == [set |-> TRUE, val |-> s]

-----------------------------------------------------------------------------
(* Bounds of the model and the inputs the environment draws from *)

MaxRetries == 2

\* |offsetX| + |offsetY| stays within MaxOffset (arrow keys are not taken beyond)
MaxOffset == 5

ZoomFactors == {Num(1), Num(3)}

GlassSizes == {Num(300)}

KeyEvent(k, alt, shift) == [key |-> k, altKey |-> alt, shiftKey |-> shift]

\* the keydown events delivered
KeyDownEvents ==
    {KeyEvent("x", FALSE, FALSE), KeyEvent("x", TRUE, FALSE), KeyEvent("X", TRUE, TRUE),
     KeyEvent("z", TRUE, FALSE), KeyEvent("ArrowUp", FALSE, FALSE),
     KeyEvent("ArrowRight", TRUE, FALSE), KeyEvent("r", FALSE, FALSE),
     KeyEvent("R", TRUE, TRUE)}

\* the keyup events delivered
KeyUpEvents ==
    {KeyEvent("x", FALSE, FALSE), KeyEvent("X", TRUE, TRUE), KeyEvent("z", FALSE, FALSE),
     KeyEvent("Alt", FALSE, FALSE)}

\* String.prototype.toLowerCase() on the keys above
ToLowerCase(k) ==
    CASE k = "X" -> "x"
      [] k = "R" -> "r"
      [] k = "Alt" -> "alt"
      [] k = "ArrowUp" -> "arrowup"
      [] k = "ArrowDown" -> "arrowdown"
      [] k = "ArrowLeft" -> "arrowleft"
      [] k = "ArrowRight" -> "arrowright"
      [] OTHER -> k

\* pointer positions (clientX, clientY); the first lies outside the canvas
PointerPositions == {[x |-> 0, y |-> 0], [x |-> 60, y |-> 60]}

\* the host canvas element: its client rectangle and its backing-store size
CanvasElement ==
    [left |-> 10, top |-> 10, cssWidth |-> 400, cssHeight |-> 300,
     width |-> 800, height |-> 600]

\* values of app.canvas.ds
HostTransforms ==
    {[scale |-> Num(1), offset |-> <<Num(0), Num(0)>>],
     [scale |-> Num(2), offset |-> <<Num(40), Num(20)>>]}

\* what a call of saveOffsets gets stored: both items, the first only when the
\* second setItem throws, none when the first throws
WriteOutcomes == {"both", "x", "none"}

\* the outcomes drawn under Spec, where the store accepts every write; the
\* failing ones are drawn under SpecOffsets
StorageWrites == {"both"}

\* what localStorage may hold when the session starts
StoredAtStart ==
    {[x |-> NoItem, y |-> NoItem]}

-----------------------------------------------------------------------------
(* Construction *)

DefaultConfig ==
    [zoomFactor       |-> Num(3),
     glassSize        |-> Num(300),
     activationKey    |-> "x",
     altRequired      |-> TRUE,
     offsetStep       |-> Num(5),
     resetKey         |-> "r",
     resetAltRequired |-> TRUE,
     followCursor     |-> TRUE,
     glassPosition    |-> "Bottom",
     textureFiltering |-> "Linear",
     debugMode        |-> FALSE,
     offsetX          |-> Num(0),
     offsetY          |-> Num(0)]

NewMagnifierState ==
    [active            |-> FALSE,
     x                 |-> Num(0),
     y                 |-> Num(0),
     sourceX           |-> Num(0),
     sourceY           |-> Num(0),
     sourceWidth       |-> Num(0),
     sourceHeight      |-> Num(0),
     canvasScale       |-> Num(1),
     canvasOffsetX     |-> Num(0),
     canvasOffsetY     |-> Num(0),
     isRenderScheduled |-> FALSE]

NoFrame == [renderCalls |-> 0, result |-> "none"]

NoCall == [rect1 |-> <<>>, rect2 |-> <<>>, forward |-> FALSE, backward |-> FALSE]

\* the part of the program a handler reads and writes, as one value
Cur ==
    [config                 |-> config,
     state                  |-> state,
     glassDisplay           |-> glassDisplay,
     htmlOverlay            |-> htmlOverlay,
     rafQueue               |-> rafQueue,
     localStorage           |-> localStorage,
     lastKnownMousePosition |-> lastKnownMousePosition]

-----------------------------------------------------------------------------
(* The host widget tree: app.graph._nodes, each node a list of widgets.    *)
(* A widget has a DOM element or none; rect is the client rectangle of the *)
(* element, video / img the client rectangle of a descendant of that tag.  *)

ClientRect(l, t, w, h) == [left |-> l, top |-> t, width |-> w, height |-> h]

\* rect, video and img hold one client rectangle, or none
Widget(ty, tag, r, v, i) ==
    [element |-> TRUE, type |-> ty, tagName |-> tag, rect |-> <<r>>, video |-> v, img |-> i]

CanvasOnlyWidget ==
    [element |-> FALSE, type |-> "number", tagName |-> "", rect |-> <<>>,
     video |-> <<>>, img |-> <<>>]

HostGraph ==
    << << Widget("text", "TEXTAREA", ClientRect(60, 60, 50, 20), <<>>, <<>>),
          Widget("button", "BUTTON", ClientRect(50, 50, 20, 10), <<>>, <<>>),
          CanvasOnlyWidget >>,
       << >>,
       << Widget("preview", "DIV", ClientRect(300, 200, 60, 60),
                 <<ClientRect(310, 210, 40, 30)>>, <<ClientRect(310, 240, 40, 20)>>),
          Widget("image", "IMG", ClientRect(85, 40, 10, 10), <<>>, <<>>),
          Widget("gallery", "DIV", ClientRect(130, 60, 40, 40),
                 <<>>, <<ClientRect(130, 60, 40, 40)>>) >> >>

\* the widgets in the order the two nested loops visit them
RECURSIVE WidgetsFrom(_, _)
WidgetsFrom(nodes, i) ==
    IF i > Len(nodes) THEN <<>>
    ELSE [j \in 1..Len(nodes[i]) |-> [node |-> i, index |-> j, widget |-> nodes[i][j]]]
         \o WidgetsFrom(nodes, i + 1)

\* the element a widget contributes and its kind ("none": no candidate)
ElementToProcess(w) ==
    IF ~w.element THEN [kind |-> "none", rect |-> ClientRect(0, 0, 0, 0)]
    ELSE IF w.type = "text" \/ w.type = "string" \/ w.tagName = "TEXTAREA"
         THEN [kind |-> "text", rect |-> w.rect[1]]
    ELSE IF w.tagName = "VIDEO" THEN [kind |-> "video", rect |-> w.rect[1]]
    ELSE IF w.tagName = "IMG" THEN [kind |-> "image", rect |-> w.rect[1]]
    ELSE IF w.video # <<>> THEN [kind |-> "video", rect |-> w.video[1]]
    ELSE IF w.img # <<>> THEN [kind |-> "image", rect |-> w.img[1]]
    ELSE [kind |-> "none", rect |-> ClientRect(0, 0, 0, 0)]

\* backing-store pixels per CSS pixel of the host canvas, per axis
CanvasToViewportScaleX ==
    IF CanvasElement.cssWidth > 0
    THEN Div(Num(CanvasElement.width), Num(CanvasElement.cssWidth)) ELSE Num(1)

CanvasToViewportScaleY ==
    IF CanvasElement.cssHeight > 0
    THEN Div(Num(CanvasElement.height), Num(CanvasElement.cssHeight)) ELSE Num(1)

\* a client rectangle in source-canvas pixels
WidgetSourceRect(r) ==
    [x      |-> Mul(Num(r.left - CanvasElement.left), CanvasToViewportScaleX),
     y      |-> Mul(Num(r.top - CanvasElement.top), CanvasToViewportScaleY),
     width  |-> Mul(Num(r.width), CanvasToViewportScaleX),
     height |-> Mul(Num(r.height), CanvasToViewportScaleY)]

-----------------------------------------------------------------------------
(* MagnifyGlass *)

OrZero(a) == IF IsNaN(a) \/ a = Num(0) THEN Num(0) ELSE a

updateCanvasTransformation(m) ==
    [m EXCEPT !.state.canvasScale   = ds.scale,
              !.state.canvasOffsetX = OrZero(ds.offset[1]),
              !.state.canvasOffsetY = OrZero(ds.offset[2])]

\* calculateSourceRegion without the guard on a zero scale
calculateSourceRegion_NoGuard(m) ==
    LET canvasScale == m.state.canvasScale
        canvasOffsetX == m.state.canvasOffsetX
        canvasOffsetY == m.state.canvasOffsetY
        cursorGraphX == Div(Sub(m.state.x, canvasOffsetX), canvasScale)
        cursorGraphY == Div(Sub(m.state.y, canvasOffsetY), canvasScale)
        sourceGraphWidth == Div(Div(m.config.glassSize, m.config.zoomFactor), canvasScale)
        sourceGraphX == Sub(Add(cursorGraphX, m.config.offsetX), Div(sourceGraphWidth, Num(2)))
        sourceGraphY == Sub(Add(cursorGraphY, m.config.offsetY), Div(sourceGraphWidth, Num(2)))
    IN  [m EXCEPT
            !.state.sourceX = Add(Mul(sourceGraphX, canvasScale), canvasOffsetX),
            !.state.sourceY = Add(Mul(sourceGraphY, canvasScale), canvasOffsetY),
            !.state.sourceWidth = Mul(sourceGraphWidth, canvasScale),
            !.state.sourceHeight = Mul(sourceGraphWidth, canvasScale)]

\* calculateSourceRegion leaving the extent in graph units
calculateSourceRegion_ExtentInGraphUnits(m) ==
    LET canvasScale == m.state.canvasScale
        canvasOffsetX == m.state.canvasOffsetX
        canvasOffsetY == m.state.canvasOffsetY
        cursorGraphX == Div(Sub(m.state.x, canvasOffsetX), canvasScale)
        cursorGraphY == Div(Sub(m.state.y, canvasOffsetY), canvasScale)
        sourceGraphWidth == Div(Div(m.config.glassSize, m.config.zoomFactor), canvasScale)
        sourceGraphX == Sub(Add(cursorGraphX, m.config.offsetX), Div(sourceGraphWidth, Num(2)))
        sourceGraphY == Sub(Add(cursorGraphY, m.config.offsetY), Div(sourceGraphWidth, Num(2)))
    IN  IF canvasScale = Num(0) THEN m
        ELSE [m EXCEPT
                !.state.sourceX = Add(Mul(sourceGraphX, canvasScale), canvasOffsetX),
                !.state.sourceY = Add(Mul(sourceGraphY, canvasScale), canvasOffsetY),
                !.state.sourceWidth = sourceGraphWidth,
                !.state.sourceHeight = sourceGraphWidth]

calculateSourceRegion(m) ==
    LET cursorPixelX == m.state.x
        cursorPixelY == m.state.y
        canvasScale == m.state.canvasScale
        canvasOffsetX == m.state.canvasOffsetX
        canvasOffsetY == m.state.canvasOffsetY
        cursorGraphX == Div(Sub(cursorPixelX, canvasOffsetX), canvasScale)
        cursorGraphY == Div(Sub(cursorPixelY, canvasOffsetY), canvasScale)
        targetGraphCenterX == Add(cursorGraphX, m.config.offsetX)
        targetGraphCenterY == Add(cursorGraphY, m.config.offsetY)
        sourceGraphWidth == Div(Div(m.config.glassSize, m.config.zoomFactor), canvasScale)
        sourceGraphHeight == Div(Div(m.config.glassSize, m.config.zoomFactor), canvasScale)
        sourceGraphX == Sub(targetGraphCenterX, Div(sourceGraphWidth, Num(2)))
        sourceGraphY == Sub(targetGraphCenterY, Div(sourceGraphHeight, Num(2)))
    IN  IF canvasScale = Num(0) THEN m
        ELSE [m EXCEPT
                !.state.sourceX = Add(Mul(sourceGraphX, canvasScale), canvasOffsetX),
                !.state.sourceY = Add(Mul(sourceGraphY, canvasScale), canvasOffsetY),
                !.state.sourceWidth = Mul(sourceGraphWidth, canvasScale),
                !.state.sourceHeight = Mul(sourceGraphHeight, canvasScale)]

\* updateMagnifiedView scheduling a frame on every request
updateMagnifiedView_AlwaysSchedules(m) ==
    IF ~m.state.active \/ renderer = "null" \/ ~litegraphCanvas THEN m
    ELSE LET c == calculateSourceRegion(updateCanvasTransformation(m))
         IN  [c EXCEPT !.state.isRenderScheduled = TRUE, !.rafQueue = c.rafQueue + 1]

\* the render request: recompute, then schedule a frame unless one is pending
\* updateMagnifiedView computing the sample rectangle only when it schedules
updateMagnifiedView_ComputesOnSchedule(m) ==
    IF ~m.state.active \/ renderer = "null" \/ ~litegraphCanvas THEN m
    ELSE IF ~m.state.isRenderScheduled
         THEN LET c == calculateSourceRegion(updateCanvasTransformation(m))
              IN  [c EXCEPT !.state.isRenderScheduled = TRUE,
                            !.rafQueue = c.rafQueue + 1]
         ELSE m

updateMagnifiedView(m) ==
    IF ~m.state.active \/ renderer = "null" \/ ~litegraphCanvas THEN m
    ELSE LET c == calculateSourceRegion(updateCanvasTransformation(m))
         IN  IF ~c.state.isRenderScheduled
             THEN [c EXCEPT !.state.isRenderScheduled = TRUE,
                            !.rafQueue = c.rafQueue + 1]
             ELSE c

\* rectsOverlap counting a shared left edge as overlap
rectsOverlap_TouchingCounts(rect1, rect2) ==
    /\ Le(rect1.x, Add(rect2.x, rect2.width))
    /\ Gt(Add(rect1.x, rect1.width), rect2.x)
    /\ Lt(rect1.y, Add(rect2.y, rect2.height))
    /\ Gt(Add(rect1.y, rect1.height), rect2.y)

rectsOverlap(rect1, rect2) ==
    /\ Lt(rect1.x, Add(rect2.x, rect2.width))
    /\ Gt(Add(rect1.x, rect1.width), rect2.x)
    /\ Lt(rect1.y, Add(rect2.y, rect2.height))
    /\ Gt(Add(rect1.y, rect1.height), rect2.y)

MagnifyRect(m) ==
    [x |-> m.state.sourceX, y |-> m.state.sourceY,
     width |-> m.state.sourceWidth, height |-> m.state.sourceHeight]

\* the clone appended for the visited widget v, or none
ClonesOf(m, v) ==
    LET e == ElementToProcess(v.widget)
        widgetSourceRect == WidgetSourceRect(e.rect)
        magnifyRect == MagnifyRect(m)
    IN  IF e.kind # "none" /\ rectsOverlap(magnifyRect, widgetSourceRect)
        THEN << [node |-> v.node, index |-> v.index, kind |-> e.kind] >>
        ELSE <<>>

\* placement of a clone that also multiplies its intrinsic size by the zoom factor
CloneStyle_SizeScaled(m, widgetSourceRect) ==
    LET magnifyRect == MagnifyRect(m)
        relativeX == Sub(widgetSourceRect.x, magnifyRect.x)
        relativeY == Sub(widgetSourceRect.y, magnifyRect.y)
    IN  [left   |-> Mul(relativeX, m.config.zoomFactor),
         top    |-> Mul(relativeY, m.config.zoomFactor),
         width  |-> Mul(widgetSourceRect.width, m.config.zoomFactor),
         height |-> Mul(widgetSourceRect.height, m.config.zoomFactor),
         scale  |-> m.config.zoomFactor]

\* the style given to a clone: left, top, width, height in px and transform scale()
CloneStyle(m, widgetSourceRect) ==
    LET magnifyRect == MagnifyRect(m)
        relativeX == Sub(widgetSourceRect.x, magnifyRect.x)
        relativeY == Sub(widgetSourceRect.y, magnifyRect.y)
        magnifiedX == Mul(relativeX, m.config.zoomFactor)
        magnifiedY == Mul(relativeY, m.config.zoomFactor)
    IN  [left   |-> magnifiedX,
         top    |-> magnifiedY,
         width  |-> widgetSourceRect.width,
         height |-> widgetSourceRect.height,
         scale  |-> m.config.zoomFactor]

RECURSIVE AppendClones(_, _, _)
AppendClones(m, visited, container) ==
    IF visited = <<>> THEN container
    ELSE AppendClones(m, Tail(visited), container \o ClonesOf(m, Head(visited)))

\* renderHtmlOverlays appending to the container without emptying it first
renderHtmlOverlays_KeepsOldClones(m) ==
    IF ~m.state.active \/ glassDiv = "null" \/ ~litegraphCanvas
    THEN (IF glassDiv # "null" THEN [m EXCEPT !.htmlOverlay = <<>>] ELSE m)
    ELSE [m EXCEPT !.htmlOverlay = AppendClones(m, WidgetsFrom(HostGraph, 1), m.htmlOverlay)]

renderHtmlOverlays(m) ==
    IF ~m.state.active \/ glassDiv = "null" \/ ~litegraphCanvas
    THEN (IF glassDiv # "null" THEN [m EXCEPT !.htmlOverlay = <<>>] ELSE m)
    ELSE [m EXCEPT !.htmlOverlay = AppendClones(m, WidgetsFrom(HostGraph, 1), <<>>)]

-----------------------------------------------------------------------------
(* ConfigManager *)

loadSavedOffsets(m, readOk) ==
    IF ~readOk
    THEN [m EXCEPT !.config.offsetX = Num(0), !.config.offsetY = Num(0)]
    ELSE [m EXCEPT
            !.config.offsetX = IF m.localStorage.x.set
                               THEN ParseInt(m.localStorage.x.val) ELSE Num(0),
            !.config.offsetY = IF m.localStorage.y.set
                               THEN ParseInt(m.localStorage.y.val) ELSE Num(0)]

\* saveOffsets that stores nothing
saveOffsets_StoresNothing(m, written) == m

\* the two setItem calls inside one try: either may throw, and the catch swallows
\* it; written tells how many of them were carried out ("both", "x", "none")
saveOffsets(m, written) ==
    IF written = "both"
    THEN [m EXCEPT !.localStorage.x = Item(NumberToString(m.config.offsetX)),
                   !.localStorage.y = Item(NumberToString(m.config.offsetY))]
    ELSE IF written = "x"
    THEN [m EXCEPT !.localStorage.x = Item(NumberToString(m.config.offsetX))]
    ELSE m

resetOffsets(m, written) ==
    LET saved == saveOffsets([m EXCEPT !.config.offsetX = Num(0),
                                       !.config.offsetY = Num(0)], written)
    IN  IF saved.state.active THEN updateMagnifiedView(saved) ELSE saved

-----------------------------------------------------------------------------
(* Settings store: app.ui.settings.getSettingValue answers, per key, with a *)
(* value, with undefined, or by throwing.                                   *)

Answer(v) == [kind |-> "value", value |-> <<v>>]

Undefined == [kind |-> "undefined", value |-> <<>>]

Throws == [kind |-> "throws", value |-> <<>>]

getSettingValue(store, key, defaultValue) ==
    IF store[key].kind = "throws" THEN defaultValue
    ELSE IF store[key].kind = "undefined" THEN defaultValue
    ELSE store[key].value[1]

\* loadSettings when a throw of the store leaves getSettingValue: the fields
\* after the first key that throws are not read
loadSettings_StopsAtThrow(m, store) ==
    LET order == <<"ZoomFactor", "GlassSize", "ActivationKey", "AltRequired",
                   "OffsetStep", "ResetKey", "ResetAltRequired">>
        read(i, current) ==
            IF \E j \in 1..i : store[order[j]].kind = "throws" THEN current
            ELSE IF store[order[i]].kind = "undefined" THEN current
            ELSE store[order[i]].value[1]
    IN  [m EXCEPT
            !.config.zoomFactor = read(1, @),
            !.config.glassSize = read(2, @),
            !.config.activationKey = read(3, @),
            !.config.altRequired = read(4, @),
            !.config.offsetStep = read(5, @),
            !.config.resetKey = read(6, @),
            !.config.resetAltRequired = read(7, @)]

loadSettings(m, store) ==
    [m EXCEPT
        !.config.zoomFactor = getSettingValue(store, "ZoomFactor", @),
        !.config.glassSize = getSettingValue(store, "GlassSize", @),
        !.config.activationKey = getSettingValue(store, "ActivationKey", @),
        !.config.altRequired = getSettingValue(store, "AltRequired", @),
        !.config.offsetStep = getSettingValue(store, "OffsetStep", @),
        !.config.resetKey = getSettingValue(store, "ResetKey", @),
        !.config.resetAltRequired = getSettingValue(store, "ResetAltRequired", @)]

-----------------------------------------------------------------------------
(* UiManager *)

show(m) == [m EXCEPT !.glassDisplay = "block"]

\* hide leaving the container displayed
hide_KeepsDisplay(m) == [m EXCEPT !.htmlOverlay = <<>>]

\* hide leaving the clones in the overlay container
hide_KeepsClones(m) == [m EXCEPT !.glassDisplay = "none"]

hide(m) == [m EXCEPT !.glassDisplay = "none", !.htmlOverlay = <<>>]

-----------------------------------------------------------------------------
(* EventHandler *)

\* the pointer's client position in source-canvas pixels
PixelX(clientX) == Mul(Num(clientX - CanvasElement.left), CanvasToViewportScaleX)

PixelY(clientY) == Mul(Num(clientY - CanvasElement.top), CanvasToViewportScaleY)

\* the client position lies over the host canvas element
OverCanvas(p) ==
    /\ p.x >= CanvasElement.left /\ p.x <= CanvasElement.left + CanvasElement.cssWidth
    /\ p.y >= CanvasElement.top /\ p.y <= CanvasElement.top + CanvasElement.cssHeight

updateInitialPosition(m) ==
    LET clientX == m.lastKnownMousePosition.x
        clientY == m.lastKnownMousePosition.y
    IN  IF ~litegraphCanvas THEN m
        ELSE IF /\ clientX >= CanvasElement.left
                /\ clientX <= CanvasElement.left + CanvasElement.cssWidth
                /\ clientY >= CanvasElement.top
                /\ clientY <= CanvasElement.top + CanvasElement.cssHeight
        THEN updateMagnifiedView([m EXCEPT !.state.x = PixelX(clientX),
                                           !.state.y = PixelY(clientY)])
        ELSE m

\* activation that does not look at the Alt modifier
Activate_IgnoresAlt(m, e) ==
    IF ToLowerCase(e.key) = m.config.activationKey /\ ~m.state.active
    THEN updateInitialPosition(show([m EXCEPT !.state.active = TRUE]))
    ELSE m

\* activation that does not look whether the magnifier is active already
Activate_AgainWhileActive(m, e) ==
    IF /\ ToLowerCase(e.key) = m.config.activationKey
       /\ (~m.config.altRequired \/ e.altKey)
    THEN updateInitialPosition(show([m EXCEPT !.state.active = TRUE]))
    ELSE m

\* the activation part of handleKeyDown
Activate(m, e) ==
    IF /\ ToLowerCase(e.key) = m.config.activationKey
       /\ (~m.config.altRequired \/ e.altKey)
       /\ ~m.state.active
    THEN updateInitialPosition(show([m EXCEPT !.state.active = TRUE]))
    ELSE m

\* the offset part of handleKeyDown when a throw from setItem leaves saveOffsets:
\* the handler ends before updateMagnifiedView
AdjustOffsets_WriteFailureAborts(m, e, written) ==
    LET stepSize == IF e.shiftKey THEN Mul(m.config.offsetStep, Num(5))
                    ELSE m.config.offsetStep
        changed(c) == IF written = "both" THEN updateMagnifiedView(saveOffsets(c, written))
                      ELSE saveOffsets(c, written)
    IN  IF ~m.state.active THEN m
        ELSE IF e.key = "ArrowUp"
             THEN changed([m EXCEPT !.config.offsetY = Sub(@, stepSize)])
        ELSE IF e.key = "ArrowDown"
             THEN changed([m EXCEPT !.config.offsetY = Add(@, stepSize)])
        ELSE IF e.key = "ArrowLeft"
             THEN changed([m EXCEPT !.config.offsetX = Sub(@, stepSize)])
        ELSE IF e.key = "ArrowRight"
             THEN changed([m EXCEPT !.config.offsetX = Add(@, stepSize)])
        ELSE IF /\ ToLowerCase(e.key) = ToLowerCase(m.config.resetKey)
                /\ (~m.config.resetAltRequired \/ e.altKey)
             THEN changed([m EXCEPT !.config.offsetX = Num(0), !.config.offsetY = Num(0)])
        ELSE m

\* the offset part of handleKeyDown whose reset key clears offsetX only
AdjustOffsets_ResetXOnly(m, e, written) ==
    LET stepSize == IF e.shiftKey THEN Mul(m.config.offsetStep, Num(5))
                    ELSE m.config.offsetStep
        changed(c) == updateMagnifiedView(saveOffsets(c, written))
    IN  IF ~m.state.active THEN m
        ELSE IF e.key = "ArrowUp"
             THEN changed([m EXCEPT !.config.offsetY = Sub(@, stepSize)])
        ELSE IF e.key = "ArrowDown"
             THEN changed([m EXCEPT !.config.offsetY = Add(@, stepSize)])
        ELSE IF e.key = "ArrowLeft"
             THEN changed([m EXCEPT !.config.offsetX = Sub(@, stepSize)])
        ELSE IF e.key = "ArrowRight"
             THEN changed([m EXCEPT !.config.offsetX = Add(@, stepSize)])
        ELSE IF /\ ToLowerCase(e.key) = ToLowerCase(m.config.resetKey)
                /\ (~m.config.resetAltRequired \/ e.altKey)
             THEN changed([m EXCEPT !.config.offsetX = Num(0)])
        ELSE m

\* the offset part of handleKeyDown taking the plain step whether or not Shift is held
AdjustOffsets_ShiftIgnored(m, e, written) ==
    LET stepSize == m.config.offsetStep
        changed(c) == updateMagnifiedView(saveOffsets(c, written))
    IN  IF ~m.state.active THEN m
        ELSE IF e.key = "ArrowUp"
             THEN changed([m EXCEPT !.config.offsetY = Sub(@, stepSize)])
        ELSE IF e.key = "ArrowDown"
             THEN changed([m EXCEPT !.config.offsetY = Add(@, stepSize)])
        ELSE IF e.key = "ArrowLeft"
             THEN changed([m EXCEPT !.config.offsetX = Sub(@, stepSize)])
        ELSE IF e.key = "ArrowRight"
             THEN changed([m EXCEPT !.config.offsetX = Add(@, stepSize)])
        ELSE IF /\ ToLowerCase(e.key) = ToLowerCase(m.config.resetKey)
                /\ (~m.config.resetAltRequired \/ e.altKey)
             THEN changed([m EXCEPT !.config.offsetX = Num(0), !.config.offsetY = Num(0)])
        ELSE m

\* the offset part of handleKeyDown without the test of state.active
AdjustOffsets_WhileInactive(m, e, written) ==
    LET stepSize == IF e.shiftKey THEN Mul(m.config.offsetStep, Num(5))
                    ELSE m.config.offsetStep
        changed(c) == updateMagnifiedView(saveOffsets(c, written))
    IN  IF e.key = "ArrowUp"
             THEN changed([m EXCEPT !.config.offsetY = Sub(@, stepSize)])
        ELSE IF e.key = "ArrowDown"
             THEN changed([m EXCEPT !.config.offsetY = Add(@, stepSize)])
        ELSE IF e.key = "ArrowLeft"
             THEN changed([m EXCEPT !.config.offsetX = Sub(@, stepSize)])
        ELSE IF e.key = "ArrowRight"
             THEN changed([m EXCEPT !.config.offsetX = Add(@, stepSize)])
        ELSE IF /\ ToLowerCase(e.key) = ToLowerCase(m.config.resetKey)
                /\ (~m.config.resetAltRequired \/ e.altKey)
             THEN changed([m EXCEPT !.config.offsetX = Num(0), !.config.offsetY = Num(0)])
        ELSE m

\* the offset part of handleKeyDown whose reset key never asks for Alt
AdjustOffsets_ResetIgnoresAlt(m, e, written) ==
    LET stepSize == IF e.shiftKey THEN Mul(m.config.offsetStep, Num(5))
                    ELSE m.config.offsetStep
        changed(c) == updateMagnifiedView(saveOffsets(c, written))
    IN  IF ~m.state.active THEN m
        ELSE IF e.key = "ArrowUp"
             THEN changed([m EXCEPT !.config.offsetY = Sub(@, stepSize)])
        ELSE IF e.key = "ArrowDown"
             THEN changed([m EXCEPT !.config.offsetY = Add(@, stepSize)])
        ELSE IF e.key = "ArrowLeft"
             THEN changed([m EXCEPT !.config.offsetX = Sub(@, stepSize)])
        ELSE IF e.key = "ArrowRight"
             THEN changed([m EXCEPT !.config.offsetX = Add(@, stepSize)])
        ELSE IF ToLowerCase(e.key) = ToLowerCase(m.config.resetKey)
             THEN changed([m EXCEPT !.config.offsetX = Num(0), !.config.offsetY = Num(0)])
        ELSE m

\* the offset part of handleKeyDown
AdjustOffsets(m, e, written) ==
    LET stepSize == IF e.shiftKey THEN Mul(m.config.offsetStep, Num(5))
                    ELSE m.config.offsetStep
        changed(c) == updateMagnifiedView(saveOffsets(c, written))
    IN  IF ~m.state.active THEN m
        ELSE IF e.key = "ArrowUp"
             THEN changed([m EXCEPT !.config.offsetY = Sub(@, stepSize)])
        ELSE IF e.key = "ArrowDown"
             THEN changed([m EXCEPT !.config.offsetY = Add(@, stepSize)])
        ELSE IF e.key = "ArrowLeft"
             THEN changed([m EXCEPT !.config.offsetX = Sub(@, stepSize)])
        ELSE IF e.key = "ArrowRight"
             THEN changed([m EXCEPT !.config.offsetX = Add(@, stepSize)])
        ELSE IF /\ ToLowerCase(e.key) = ToLowerCase(m.config.resetKey)
                /\ (~m.config.resetAltRequired \/ e.altKey)
             THEN changed([m EXCEPT !.config.offsetX = Num(0), !.config.offsetY = Num(0)])
        ELSE m

handleKeyDown(m, e, written) == AdjustOffsets(Activate(m, e), e, written)

\* handleKeyUp deactivating on the activation key only
handleKeyUp_ActivationKeyOnly(m, e) ==
    IF ToLowerCase(e.key) = m.config.activationKey /\ m.state.active
    THEN hide([m EXCEPT !.state.active = FALSE])
    ELSE m

\* handleKeyUp deactivating on a release of Alt whether or not Alt is required
handleKeyUp_AltAlwaysEnds(m, e) ==
    IF (ToLowerCase(e.key) = m.config.activationKey \/ e.key = "Alt") /\ m.state.active
    THEN hide([m EXCEPT !.state.active = FALSE])
    ELSE m

handleKeyUp(m, e) ==
    LET shouldDeactivate ==
            IF m.config.altRequired
            THEN e.key = "Alt" \/ ToLowerCase(e.key) = m.config.activationKey
            ELSE ToLowerCase(e.key) = m.config.activationKey
    IN  IF /\ \/ ToLowerCase(e.key) = m.config.activationKey
              \/ (m.config.altRequired /\ e.key = "Alt")
           /\ m.state.active
           /\ shouldDeactivate
        THEN hide([m EXCEPT !.state.active = FALSE])
        ELSE m

\* handleMouseMove taking over the cursor without asking for a render
handleMouseMove_NoRequest(m, e) ==
    LET tracked == [m EXCEPT !.lastKnownMousePosition = [x |-> e.clientX, y |-> e.clientY]]
        cssMouseXOnCanvas == e.clientX - CanvasElement.left
        cssMouseYOnCanvas == e.clientY - CanvasElement.top
    IN  IF ~m.state.active \/ ~litegraphCanvas THEN tracked
        ELSE IF /\ cssMouseXOnCanvas >= 0
                /\ cssMouseXOnCanvas <= CanvasElement.cssWidth
                /\ cssMouseYOnCanvas >= 0
                /\ cssMouseYOnCanvas <= CanvasElement.cssHeight
        THEN [tracked EXCEPT !.state.x = PixelX(e.clientX), !.state.y = PixelY(e.clientY)]
        ELSE tracked

\* handleMouseMove without the test that the pointer is over the canvas
handleMouseMove_AnyPosition(m, e) ==
    LET tracked == [m EXCEPT !.lastKnownMousePosition = [x |-> e.clientX, y |-> e.clientY]]
    IN  IF ~m.state.active \/ ~litegraphCanvas THEN tracked
        ELSE updateMagnifiedView([tracked EXCEPT !.state.x = PixelX(e.clientX),
                                                 !.state.y = PixelY(e.clientY)])

handleMouseMove(m, e) ==
    LET tracked == [m EXCEPT !.lastKnownMousePosition = [x |-> e.clientX, y |-> e.clientY]]
        cssMouseXOnCanvas == e.clientX - CanvasElement.left
        cssMouseYOnCanvas == e.clientY - CanvasElement.top
    IN  IF ~m.state.active \/ ~litegraphCanvas THEN tracked
        ELSE IF /\ cssMouseXOnCanvas >= 0
                /\ cssMouseXOnCanvas <= CanvasElement.cssWidth
                /\ cssMouseYOnCanvas >= 0
                /\ cssMouseYOnCanvas <= CanvasElement.cssHeight
        THEN updateMagnifiedView([tracked EXCEPT !.state.x = PixelX(e.clientX),
                                                 !.state.y = PixelY(e.clientY)])
        ELSE tracked

-----------------------------------------------------------------------------
(* The frame callback of updateMagnifiedView and WebGLRenderer.render *)


\* the frame callback that skips the re-check of state.active
FrameGate_SkipsActiveCheck(m) == renderer # "null" /\ litegraphCanvas

\* whether the callback goes on to render
FrameGate(m) == m.state.active /\ renderer # "null" /\ litegraphCanvas

\* render: the texture upload, then the quad; an upload that throws draws nothing
\* render drawing the quad although the upload threw
render_DrawsAfterFailedUpload(uploadOk) == "drawn"

render(uploadOk) == IF uploadOk THEN "drawn" ELSE "skipped"

\* the texture rectangle render hands to the shader: the sample rectangle as
\* it is when render runs, over the extent of the source canvas
renderUniforms(m) ==
    [uvX      |-> Div(m.state.sourceX, Num(CanvasElement.width)),
     uvY      |-> Div(m.state.sourceY, Num(CanvasElement.height)),
     uvWidth  |-> Div(m.state.sourceWidth, Num(CanvasElement.width)),
     uvHeight |-> Div(m.state.sourceHeight, Num(CanvasElement.height))]

FrameCallback(m) ==
    IF ~FrameGate(m) THEN [m EXCEPT !.state.isRenderScheduled = FALSE]
    ELSE [renderHtmlOverlays(m) EXCEPT !.state.isRenderScheduled = FALSE]

-----------------------------------------------------------------------------
(* Initial state: after the constructors and loadSettings *)

Init ==
    /\ phase = "setup"
    /\ hostReady \in BOOLEAN
    /\ retries = 0
    /\ glassDiv = "null"
    /\ glassDisplay = "none"
    /\ renderer = "null"
    /\ litegraphCanvas = FALSE
    /\ listeners = 0
    /\ config = DefaultConfig
    /\ state = NewMagnifierState
    /\ lastKnownMousePosition = [x |-> 0, y |-> 0]
    /\ ds \in HostTransforms
    /\ rafQueue = 0
    /\ htmlOverlay = <<>>
    /\ localStorage \in StoredAtStart
    /\ frame = NoFrame
    /\ call = NoCall

\* the handler's result becomes the next state
Becomes(m) ==
    /\ config' = m.config
    /\ state' = m.state
    /\ glassDisplay' = m.glassDisplay
    /\ htmlOverlay' = m.htmlOverlay
    /\ rafQueue' = m.rafQueue
    /\ localStorage' = m.localStorage
    /\ lastKnownMousePosition' = m.lastKnownMousePosition

Magnitude(a) == IF a.d = 0 THEN 0 ELSE Abs(a.n) \div a.d

WithinOffsetBound(c) == Magnitude(c.offsetX) + Magnitude(c.offsetY) <= MaxOffset

-----------------------------------------------------------------------------
(* MagnifyGlass.init: the first call from setup() and the retries by timer *)

\* init attaching the listeners although the renderer or the canvas is missing
init_ListensAfterFailure(webglOk, canvasFound, readOk) ==
    IF ~hostReady
    THEN /\ phase' = "waiting"
         /\ retries' = retries + 1
         /\ UNCHANGED <<glassDiv, glassDisplay, renderer, litegraphCanvas, listeners,
                        config, htmlOverlay>>
    ELSE /\ config' = loadSavedOffsets(Cur, readOk).config
         /\ glassDisplay' = "none"
         /\ htmlOverlay' = <<>>
         /\ renderer' = IF webglOk THEN "valid" ELSE "invalid"
         /\ litegraphCanvas' = (webglOk /\ canvasFound)
         /\ glassDiv' = IF webglOk /\ canvasFound THEN "attached" ELSE "removed"
         /\ listeners' = listeners + 1
         /\ phase' = IF webglOk /\ canvasFound THEN "ready" ELSE "failed"
         /\ UNCHANGED retries

\* init attaching the listeners on every call, the retries included
init_ListensOnEveryCall(webglOk, canvasFound, readOk) ==
    IF ~hostReady
    THEN /\ phase' = "waiting"
         /\ retries' = retries + 1
         /\ listeners' = listeners + 1
         /\ UNCHANGED <<glassDiv, glassDisplay, renderer, litegraphCanvas,
                        config, htmlOverlay>>
    ELSE /\ config' = loadSavedOffsets(Cur, readOk).config
         /\ glassDisplay' = "none"
         /\ htmlOverlay' = <<>>
         /\ renderer' = IF webglOk THEN "valid" ELSE "invalid"
         /\ litegraphCanvas' = (webglOk /\ canvasFound)
         /\ glassDiv' = IF webglOk /\ canvasFound THEN "attached" ELSE "removed"
         /\ listeners' = IF webglOk /\ canvasFound THEN listeners + 1 ELSE listeners
         /\ phase' = IF webglOk /\ canvasFound THEN "ready" ELSE "failed"
         /\ UNCHANGED retries

init(webglOk, canvasFound, readOk) ==
    IF ~hostReady
    THEN /\ phase' = "waiting"
         /\ retries' = retries + 1
         /\ UNCHANGED <<glassDiv, glassDisplay, renderer, litegraphCanvas, listeners,
                        config, htmlOverlay>>
    ELSE /\ config' = loadSavedOffsets(Cur, readOk).config
         /\ glassDisplay' = "none"
         /\ htmlOverlay' = <<>>
         /\ renderer' = IF webglOk THEN "valid" ELSE "invalid"
         /\ litegraphCanvas' = (webglOk /\ canvasFound)
         /\ glassDiv' = IF webglOk /\ canvasFound THEN "attached" ELSE "removed"
         /\ listeners' = IF webglOk /\ canvasFound THEN listeners + 1 ELSE listeners
         /\ phase' = IF webglOk /\ canvasFound THEN "ready" ELSE "failed"
         /\ UNCHANGED retries

Setup ==
    /\ phase = "setup"
    /\ hostReady \/ retries < MaxRetries
    /\ \E webglOk \in BOOLEAN, canvasFound \in BOOLEAN, readOk \in BOOLEAN :
           init(webglOk, canvasFound, readOk)
    /\ UNCHANGED <<hostReady, state, lastKnownMousePosition, ds, rafQueue,
                   localStorage, frame, call>>

InitRetry ==
    /\ phase = "waiting"
    /\ hostReady \/ retries < MaxRetries
    /\ \E webglOk \in BOOLEAN, canvasFound \in BOOLEAN, readOk \in BOOLEAN :
           init(webglOk, canvasFound, readOk)
    /\ UNCHANGED <<hostReady, state, lastKnownMousePosition, ds, rafQueue,
                   localStorage, frame, call>>

HostBecomesReady ==
    /\ phase = "waiting"
    /\ ~hostReady
    /\ hostReady' = TRUE
    /\ UNCHANGED <<phase, retries, glassDiv, glassDisplay, renderer, litegraphCanvas,
                   listeners, config, state, lastKnownMousePosition, ds, rafQueue,
                   htmlOverlay, localStorage, frame, call>>

-----------------------------------------------------------------------------
(* Events *)

Fixed == <<phase, hostReady, retries, glassDiv, renderer, litegraphCanvas, listeners,
           ds, frame, call>>

\* document.addEventListener("keydown", this.handleKeyDown.bind(this)): every
\* call of attachListeners adds one more bound handler, and a keydown event
\* runs each of the n handlers attached
RECURSIVE DispatchKeyDown(_, _, _, _)
DispatchKeyDown(n, m, e, written) ==
    IF n = 0 THEN m
    ELSE DispatchKeyDown(n - 1, handleKeyDown(m, e, written), e, written)

KeyDown ==
    /\ listeners > 0
    /\ \E e \in KeyDownEvents, written \in StorageWrites :
          LET m == DispatchKeyDown(listeners, Cur, e, written)
          IN  WithinOffsetBound(m.config) /\ Becomes(m)
    /\ UNCHANGED Fixed

KeyUp ==
    /\ listeners > 0
    /\ \E e \in KeyUpEvents : Becomes(handleKeyUp(Cur, e))
    /\ UNCHANGED Fixed

MouseMove ==
    /\ listeners > 0
    /\ \E p \in PointerPositions :
          Becomes(handleMouseMove(Cur, [clientX |-> p.x, clientY |-> p.y]))
    /\ UNCHANGED Fixed

\* the host pans or zooms its canvas
HostTransform ==
    /\ phase # "setup"
    /\ ds' \in HostTransforms \ {ds}
    /\ UNCHANGED <<phase, hostReady, retries, glassDiv, glassDisplay, renderer,
                   litegraphCanvas, listeners, config, state, lastKnownMousePosition,
                   rafQueue, htmlOverlay, localStorage, frame, call>>

\* the frame tick: every pending frame callback runs
FrameTick ==
    /\ rafQueue > 0
    /\ \E uploadOk \in BOOLEAN :
          /\ Becomes([FrameCallback(Cur) EXCEPT !.rafQueue = 0])
          /\ frame' = IF FrameGate(Cur)
                      THEN [renderCalls |-> rafQueue, result |-> render(uploadOk)]
                      ELSE [renderCalls |-> 0, result |-> "dropped"]
    /\ UNCHANGED <<phase, hostReady, retries, glassDiv, renderer, litegraphCanvas,
                   listeners, ds, call>>

-----------------------------------------------------------------------------
(* Settings onChange callbacks *)

ZoomFactorChanged(value) ==
    LET c == [Cur EXCEPT !.config.zoomFactor = ParseFloatOfNumber(value)]
    IN  IF c.state.active THEN updateMagnifiedView(c) ELSE c

GlassSizeChanged(value) ==
    LET c == [Cur EXCEPT !.config.glassSize = ParseIntOfNumber(value)]
    IN  IF c.state.active THEN updateMagnifiedView(c) ELSE c

SetZoomFactor ==
    /\ phase # "setup"
    /\ \E value \in ZoomFactors : Becomes(ZoomFactorChanged(value))
    /\ UNCHANGED Fixed

SetGlassSize ==
    /\ phase # "setup"
    /\ \E value \in GlassSizes : Becomes(GlassSizeChanged(value))
    /\ UNCHANGED Fixed

SetAltRequired ==
    /\ phase # "setup"
    /\ \E value \in BOOLEAN :
          Becomes([Cur EXCEPT !.config.altRequired = value])
    /\ UNCHANGED Fixed

-----------------------------------------------------------------------------

Next ==
    \/ Setup
    \/ InitRetry
    \/ HostBecomesReady
    \/ KeyDown
    \/ KeyUp
    \/ MouseMove
    \/ HostTransform
    \/ FrameTick
    \/ SetZoomFactor
    \/ SetGlassSize
    \/ SetAltRequired

Spec == Init /\ [][Next]_vars

-----------------------------------------------------------------------------
(* calculateSourceRegion on drawn inputs: the cursor, the copied host      *)
(* transform, the manual offsets, the glass size, the zoom factor and the  *)
(* rectangle left by an earlier call.                                      *)

RegionCursors == {<<100, 100>>, <<0, 0>>, <<37, 250>>}

RegionScales == {Num(0), Norm(1, 2), Num(1), Num(2), Num(4)}

RegionHostOffsets == {<<0, 0>>, <<40, -20>>}

RegionManualOffsets == {<<0, 0>>, <<5, -25>>}

RegionGlassSizes == {Num(300), Num(150)}

RegionZoomFactors == {Num(1), Num(3), Norm(5, 2)}

RegionEarlierRects == {Num(0), Num(7)}

InitRegion ==
    /\ phase = "region-args"
    /\ hostReady = TRUE
    /\ retries = 0
    /\ glassDiv = "null"
    /\ glassDisplay = "none"
    /\ renderer = "null"
    /\ litegraphCanvas = FALSE
    /\ listeners = 0
    /\ \E z \in RegionZoomFactors, g \in RegionGlassSizes, o \in RegionManualOffsets :
          config = [DefaultConfig EXCEPT !.zoomFactor = z, !.glassSize = g,
                                         !.offsetX = Num(o[1]), !.offsetY = Num(o[2])]
    /\ \E c \in RegionCursors, sc \in RegionScales, h \in RegionHostOffsets,
          r \in RegionEarlierRects :
          state = [NewMagnifierState EXCEPT
                     !.x = Num(c[1]), !.y = Num(c[2]), !.canvasScale = sc,
                     !.canvasOffsetX = Num(h[1]), !.canvasOffsetY = Num(h[2]),
                     !.sourceX = r, !.sourceY = r, !.sourceWidth = r, !.sourceHeight = r]
    /\ lastKnownMousePosition = [x |-> 0, y |-> 0]
    /\ ds = [scale |-> Num(1), offset |-> <<Num(0), Num(0)>>]
    /\ rafQueue = 0
    /\ htmlOverlay = <<>>
    /\ localStorage = [x |-> NoItem, y |-> NoItem]
    /\ frame = NoFrame
    /\ call = NoCall

CalculateSourceRegion ==
    /\ phase = "region-args"
    /\ phase' = "region-done"
    /\ Becomes(calculateSourceRegion(Cur))
    /\ UNCHANGED <<hostReady, retries, glassDiv, renderer, litegraphCanvas, listeners,
                   ds, frame, call>>

NextRegion == CalculateSourceRegion

SpecRegion == InitRegion /\ [][NextRegion]_vars

-----------------------------------------------------------------------------
(* rectsOverlap on drawn pairs of rectangles, called in both orders *)

OverlapRects ==
    {[x |-> Num(x), y |-> Num(y), width |-> Num(w), height |-> Num(10)] :
        x \in {0, 10, 20}, y \in {0, 10}, w \in {0, 10, 20}}

InitOverlap ==
    /\ phase = "overlap-args"
    /\ hostReady = TRUE
    /\ retries = 0
    /\ glassDiv = "null"
    /\ glassDisplay = "none"
    /\ renderer = "null"
    /\ litegraphCanvas = FALSE
    /\ listeners = 0
    /\ config = DefaultConfig
    /\ state = NewMagnifierState
    /\ lastKnownMousePosition = [x |-> 0, y |-> 0]
    /\ ds = [scale |-> Num(1), offset |-> <<Num(0), Num(0)>>]
    /\ rafQueue = 0
    /\ htmlOverlay = <<>>
    /\ localStorage = [x |-> NoItem, y |-> NoItem]
    /\ frame = NoFrame
    /\ \E a \in OverlapRects, b \in OverlapRects :
          call = [rect1 |-> <<a>>, rect2 |-> <<b>>, forward |-> FALSE, backward |-> FALSE]

RectsOverlapCalls ==
    /\ phase = "overlap-args"
    /\ phase' = "overlap-done"
    /\ call' = [call EXCEPT !.forward = rectsOverlap(call.rect1[1], call.rect2[1]),
                            !.backward = rectsOverlap(call.rect2[1], call.rect1[1])]
    /\ UNCHANGED <<hostReady, retries, glassDiv, glassDisplay, renderer, litegraphCanvas,
                   listeners, config, state, lastKnownMousePosition, ds, rafQueue,
                   htmlOverlay, localStorage, frame>>

NextOverlap == RectsOverlapCalls

SpecOverlap == InitOverlap /\ [][NextOverlap]_vars

-----------------------------------------------------------------------------
(* The placement of one clone in renderHtmlOverlays, on drawn sample       *)
(* rectangles, zoom factors and client rectangles of a candidate element.  *)

CloneOrigins == {<<50, 50>>, <<0, 0>>, <<120, 90>>, <<-30, 40>>}

CloneExtents == {Num(100), Num(300)}

CloneZoomFactors == {Num(1), Num(3), Norm(5, 2)}

CloneWidgetRects ==
    {ClientRect(60, 60, 50, 20), ClientRect(85, 40, 10, 10), ClientRect(130, 60, 40, 40),
     ClientRect(20, 30, 15, 5)}

InitClone ==
    /\ phase = "clone-args"
    /\ hostReady = TRUE
    /\ retries = 0
    /\ glassDiv = "attached"
    /\ glassDisplay = "block"
    /\ renderer = "valid"
    /\ litegraphCanvas = TRUE
    /\ listeners = 1
    /\ \E z \in CloneZoomFactors : config = [DefaultConfig EXCEPT !.zoomFactor = z]
    /\ \E o \in CloneOrigins, w \in CloneExtents :
          state = [NewMagnifierState EXCEPT
                     !.active = TRUE,
                     !.sourceX = Num(o[1]), !.sourceY = Num(o[2]),
                     !.sourceWidth = w, !.sourceHeight = w]
    /\ lastKnownMousePosition = [x |-> 0, y |-> 0]
    /\ ds = [scale |-> Num(1), offset |-> <<Num(0), Num(0)>>]
    /\ rafQueue = 0
    /\ htmlOverlay = <<>>
    /\ localStorage = [x |-> NoItem, y |-> NoItem]
    /\ frame = NoFrame
    /\ \E r \in CloneWidgetRects : call = [widgetRect |-> r, style |-> <<>>]

\* lines 290-338 for one candidate: a clone is styled and appended when it overlaps
PlaceClone ==
    /\ phase = "clone-args"
    /\ phase' = "clone-done"
    /\ LET widgetSourceRect == WidgetSourceRect(call.widgetRect)
       IN  call' = [call EXCEPT !.style =
                       IF rectsOverlap(MagnifyRect(Cur), widgetSourceRect)
                       THEN <<CloneStyle(Cur, widgetSourceRect)>> ELSE <<>>]
    /\ UNCHANGED <<hostReady, retries, glassDiv, glassDisplay, renderer, litegraphCanvas,
                   listeners, config, state, lastKnownMousePosition, ds, rafQueue,
                   htmlOverlay, localStorage, frame>>

NextClone == PlaceClone

SpecClone == InitClone /\ [][NextClone]_vars

-----------------------------------------------------------------------------

(* The manual offsets and their two localStorage items: arrow and reset    *)
(* keys while the store accepts or refuses writes, and a following session *)
(* that loads what the store holds.                                        *)

\* keydown and reset calls taken in a run of SpecOffsets
MaxKeys == 2

OffsetKeyEvents ==
    {KeyEvent("x", TRUE, FALSE),
     KeyEvent("ArrowUp", FALSE, FALSE), KeyEvent("ArrowUp", FALSE, TRUE),
     KeyEvent("ArrowDown", FALSE, FALSE), KeyEvent("ArrowDown", FALSE, TRUE),
     KeyEvent("ArrowLeft", FALSE, FALSE), KeyEvent("ArrowLeft", FALSE, TRUE),
     KeyEvent("ArrowRight", FALSE, FALSE), KeyEvent("ArrowRight", FALSE, TRUE),
     KeyEvent("r", TRUE, FALSE), KeyEvent("r", FALSE, FALSE), KeyEvent("R", TRUE, TRUE)}

\* what the store held when the session started
OffsetsStoredAtStart ==
    {[x |-> NoItem, y |-> NoItem],
     [x |-> Item(<<"7">>), y |-> Item(<<"-", "1", "2">>)]}

\* a session whose init() succeeded and loaded the stored offsets, activated
\* with the pointer outside the canvas
InitOffsets ==
    /\ phase = "ready"
    /\ hostReady = TRUE
    /\ retries = 0
    /\ glassDiv = "attached"
    /\ glassDisplay = "block"
    /\ renderer = "valid"
    /\ litegraphCanvas = TRUE
    /\ listeners = 1
    /\ localStorage \in OffsetsStoredAtStart
    /\ config = [DefaultConfig EXCEPT
                    !.offsetX = IF localStorage.x.set THEN ParseInt(localStorage.x.val)
                                ELSE Num(0),
                    !.offsetY = IF localStorage.y.set THEN ParseInt(localStorage.y.val)
                                ELSE Num(0)]
    /\ state = [NewMagnifierState EXCEPT !.active = TRUE]
    /\ lastKnownMousePosition = [x |-> 0, y |-> 0]
    /\ ds = [scale |-> Num(1), offset |-> <<Num(0), Num(0)>>]
    /\ rafQueue = 0
    /\ htmlOverlay = <<>>
    /\ frame = NoFrame
    /\ call = [keys |-> 0]

OffsetsFixed == <<phase, hostReady, retries, glassDiv, renderer, litegraphCanvas,
                  listeners, ds, frame>>

OffsetKeyDown ==
    /\ listeners > 0
    /\ call.keys < MaxKeys
    /\ \E e \in OffsetKeyEvents, written \in WriteOutcomes :
          Becomes(handleKeyDown(Cur, e, written))
    /\ call' = [keys |-> call.keys + 1]
    /\ UNCHANGED OffsetsFixed

ResetOffsets ==
    /\ call.keys < MaxKeys
    /\ \E written \in WriteOutcomes : Becomes(resetOffsets(Cur, written))
    /\ call' = [keys |-> call.keys + 1]
    /\ UNCHANGED OffsetsFixed

\* the page is loaded again: constructors, then init() running loadSavedOffsets
NewSession ==
    /\ \E readOk \in BOOLEAN :
          config' = loadSavedOffsets([Cur EXCEPT !.config = DefaultConfig], readOk).config
    /\ state' = NewMagnifierState
    /\ glassDisplay' = "none"
    /\ htmlOverlay' = <<>>
    /\ rafQueue' = 0
    /\ lastKnownMousePosition' = [x |-> 0, y |-> 0]
    /\ UNCHANGED <<phase, hostReady, retries, glassDiv, renderer, litegraphCanvas,
                   listeners, ds, localStorage, frame, call>>

\* onChange of the ResetAltRequired setting
SetResetAltRequired ==
    /\ \E value \in BOOLEAN : Becomes([Cur EXCEPT !.config.resetAltRequired = value])
    /\ UNCHANGED <<OffsetsFixed, call>>

NextOffsets ==
    \/ OffsetKeyDown
    \/ ResetOffsets
    \/ NewSession
    \/ SetResetAltRequired

SpecOffsets == InitOffsets /\ [][NextOffsets]_vars

-----------------------------------------------------------------------------

(* loadSavedOffsets on drawn contents of the two localStorage items *)

\* missing, integers, and strings parseInt finds no integer in
StoredValues ==
    {NoItem, Item(<<"1", "2">>), Item(<<"-", "7">>), Item(<<"a", "b", "c">>), Item(<<>>),
     Item(<<"5", "p", "x">>), Item(<<" ", "3">>), Item(<<"-">>)}

InitLoad ==
    /\ phase = "load-args"
    /\ hostReady = TRUE
    /\ retries = 0
    /\ glassDiv = "null"
    /\ glassDisplay = "none"
    /\ renderer = "null"
    /\ litegraphCanvas = FALSE
    /\ listeners = 0
    /\ config = DefaultConfig
    /\ state = NewMagnifierState
    /\ lastKnownMousePosition = [x |-> 0, y |-> 0]
    /\ ds = [scale |-> Num(1), offset |-> <<Num(0), Num(0)>>]
    /\ rafQueue = 0
    /\ htmlOverlay = <<>>
    /\ \E sx \in StoredValues, sy \in StoredValues : localStorage = [x |-> sx, y |-> sy]
    /\ frame = NoFrame
    /\ call = [readOk |-> TRUE]

\* readOk: localStorage.getItem returns; otherwise it throws
LoadSavedOffsets ==
    /\ phase = "load-args"
    /\ phase' = "load-done"
    /\ \E readOk \in BOOLEAN :
          /\ Becomes(loadSavedOffsets(Cur, readOk))
          /\ call' = [readOk |-> readOk]
    /\ UNCHANGED <<hostReady, retries, glassDiv, renderer, litegraphCanvas, listeners,
                   ds, frame>>

NextLoad == LoadSavedOffsets

SpecLoad == InitLoad /\ [][NextLoad]_vars

-----------------------------------------------------------------------------

(* loadSettings against drawn answers of the settings store *)

\* the keys read into the fields of config the model carries, each with the
\* field it is read into and a value a user may have saved
SettingKeys ==
    {"ZoomFactor", "GlassSize", "ActivationKey", "AltRequired", "OffsetStep", "ResetKey",
     "ResetAltRequired"}

SavedSetting ==
    [ZoomFactor |-> Norm(5, 2), GlassSize |-> Num(150), ActivationKey |-> "z",
     AltRequired |-> FALSE, OffsetStep |-> Num(10), ResetKey |-> "o",
     ResetAltRequired |-> FALSE]

SettingField ==
    [ZoomFactor |-> "zoomFactor", GlassSize |-> "glassSize",
     ActivationKey |-> "activationKey", AltRequired |-> "altRequired",
     OffsetStep |-> "offsetStep", ResetKey |-> "resetKey",
     ResetAltRequired |-> "resetAltRequired"]

SettingsStores ==
    {store \in [SettingKeys -> [kind : {"value", "undefined", "throws"},
                                value : {<<>>}]] : TRUE}

\* the answers of a drawn store, its defined ones carrying the saved value
StoreAnswers(store) ==
    [key \in SettingKeys |->
        IF store[key].kind = "value" THEN Answer(SavedSetting[key]) ELSE store[key]]

InitSettings ==
    /\ phase = "settings-args"
    /\ hostReady = TRUE
    /\ retries = 0
    /\ glassDiv = "null"
    /\ glassDisplay = "none"
    /\ renderer = "null"
    /\ litegraphCanvas = FALSE
    /\ listeners = 0
    /\ config = DefaultConfig
    /\ state = NewMagnifierState
    /\ lastKnownMousePosition = [x |-> 0, y |-> 0]
    /\ ds = [scale |-> Num(1), offset |-> <<Num(0), Num(0)>>]
    /\ rafQueue = 0
    /\ htmlOverlay = <<>>
    /\ localStorage = [x |-> NoItem, y |-> NoItem]
    /\ frame = NoFrame
    /\ \E store \in SettingsStores : call = [settings |-> StoreAnswers(store)]

LoadSettings ==
    /\ phase = "settings-args"
    /\ phase' = "settings-done"
    /\ Becomes(loadSettings(Cur, call.settings))
    /\ UNCHANGED <<hostReady, retries, glassDiv, renderer, litegraphCanvas, listeners,
                   ds, frame, call>>

NextSettings == LoadSettings

SpecSettings == InitSettings /\ [][NextSettings]_vars

-----------------------------------------------------------------------------

(* WebGLRenderer and the GPU objects behind it *)

\* r: the fields of a WebGLRenderer before initialize, 0 standing for null;
\* gpu: the objects made and the calls received so far, none yet
NoRenderer ==
    [r   |-> [gl |-> FALSE, program |-> 0, texture |-> 0, positionBuffer |-> 0,
              texCoordBuffer |-> 0, currentFilteringMode |-> "null"],
     gpu |-> [contexts |-> 0, programs |-> 0, buffers |-> 0, textures |-> <<>>,
              bound |-> 0, viewport |-> Num(0),
              texParameteriCalls |-> 0, texImage2DCalls |-> 0, drawArraysCalls |-> 0]]

bindTexture(g, t) == [g EXCEPT !.gpu.bound = t]

\* acts on the bound texture; without one it is an error that changes nothing
texParameteri(g, pname, value) ==
    LET counted == [g EXCEPT !.gpu.texParameteriCalls = @ + 1]
    IN  IF g.gpu.bound = 0 THEN counted
        ELSE [counted EXCEPT !.gpu.textures[g.gpu.bound][pname] = value]

\* updateTextureFiltering setting the parameters whatever the current mode
updateTextureFiltering_NoModeCheck(g, filteringModeString) ==
    IF ~g.r.gl THEN g
    ELSE LET glFilterMode ==
                 IF filteringModeString = "Nearest" THEN "NEAREST" ELSE "LINEAR"
             g1 == [g EXCEPT !.r.currentFilteringMode = glFilterMode]
             g2 == bindTexture(g1, g.r.texture)
             g3 == texParameteri(g2, "minFilter", glFilterMode)
             g4 == texParameteri(g3, "magFilter", glFilterMode)
         IN  bindTexture(g4, 0)

updateTextureFiltering(g, filteringModeString) ==
    IF ~g.r.gl THEN g
    ELSE LET glFilterMode ==
                 IF filteringModeString = "Nearest" THEN "NEAREST" ELSE "LINEAR"
         IN  IF g.r.currentFilteringMode = glFilterMode THEN g
             ELSE LET g1 == [g EXCEPT !.r.currentFilteringMode = glFilterMode]
                      g2 == bindTexture(g1, g.r.texture)
                      g3 == texParameteri(g2, "minFilter", glFilterMode)
                      g4 == texParameteri(g3, "magFilter", glFilterMode)
                  IN  bindTexture(g4, 0)

\* outcome "compile-error": a shader did not compile, no program object is
\* created; "link-error": the program object is created, then deleted
ProgramOutcomes == {"linked", "compile-error", "link-error"}

createShaderProgram(g, outcome) ==
    IF outcome = "compile-error" THEN [g EXCEPT !.r.program = 0]
    ELSE LET made == [g EXCEPT !.gpu.programs = @ + 1]
         IN  IF outcome = "link-error" THEN [made EXCEPT !.r.program = 0]
             ELSE [made EXCEPT !.r.program = made.gpu.programs]

createBuffer(g, field) ==
    [g EXCEPT !.gpu.buffers = @ + 1, !.r[field] = g.gpu.buffers + 1]

\* a new texture object has the filters and wrap modes WebGL starts it with
createTexture(g) ==
    [g EXCEPT !.gpu.textures =
                  Append(@, [minFilter |-> "NEAREST_MIPMAP_LINEAR",
                             magFilter |-> "LINEAR", wrapS |-> "REPEAT",
                             wrapT |-> "REPEAT", uploads |-> 0]),
              !.r.texture = Len(g.gpu.textures) + 1]

initialize(g, textureFiltering, contextOk, outcome) ==
    IF ~contextOk THEN g
    ELSE LET g1 == [g EXCEPT !.r.gl = TRUE, !.gpu.contexts = @ + 1,
                             !.gpu.bound = 0]
             g2 == createShaderProgram(g1, outcome)
             g3 == createBuffer(createBuffer(g2, "positionBuffer"), "texCoordBuffer")
             g4 == createTexture(g3)
             g5 == bindTexture(g4, g4.r.texture)
             g6 == texParameteri(g5, "wrapS", "CLAMP_TO_EDGE")
             g7 == texParameteri(g6, "wrapT", "CLAMP_TO_EDGE")
             g8 == texParameteri(g7, "minFilter", "LINEAR")
             g9 == texParameteri(g8, "magFilter", "LINEAR")
         IN  IF g2.r.program = 0 THEN g2
             ELSE updateTextureFiltering(g9, textureFiltering)

\* new WebGLRenderer(config, state, ui): fresh fields, then initialize
WebGLRenderer(g, textureFiltering, contextOk, outcome) ==
    initialize([g EXCEPT !.r = NoRenderer.r], textureFiltering, contextOk, outcome)

isValid(g) == g.r.gl /\ g.r.program # 0

\* render making a new texture object for every frame
renderOnGpu_NewTexturePerFrame(g, uploadOk) ==
    LET g0 == bindTexture(createTexture(g), Len(g.gpu.textures) + 1)
        g1 == [g0 EXCEPT !.gpu.texImage2DCalls = @ + 1]
    IN  IF ~uploadOk THEN g1
        ELSE [g1 EXCEPT !.gpu.textures[g0.r.texture].uploads = @ + 1,
                        !.gpu.drawArraysCalls = @ + 1]

\* WebGLRenderer.render as the GPU sees it: the upload into the one texture,
\* then the draw with the one program and the two buffers
renderOnGpu(g, uploadOk) ==
    LET g0 == bindTexture(g, g.r.texture)
        g1 == [g0 EXCEPT !.gpu.texImage2DCalls = @ + 1]
    IN  IF ~uploadOk THEN g1
        ELSE [g1 EXCEPT !.gpu.textures[g.r.texture].uploads = @ + 1,
                        !.gpu.drawArraysCalls = @ + 1]

\* applyUiChanges: the part that touches the renderer
applyUiChanges(g, glassSize) ==
    IF renderer # "null" /\ g.r.gl THEN [g EXCEPT !.gpu.viewport = glassSize] ELSE g

\* onChange of the TextureFiltering setting
TextureFilteringChanged(value) ==
    LET c == [Cur EXCEPT !.config.textureFiltering = value]
    IN  IF c.state.active THEN updateMagnifiedView(c) ELSE c

-----------------------------------------------------------------------------
(* Specification of the renderer's life: initialization with its retries,
   activation, frames and the settings that reach the renderer *)

MaxUploads == 3
MaxTexParameteriCalls == 12

TextureFilterings == {"Linear", "Nearest"}
GpuGlassSizes == {Num(100), Num(300)}
GpuKeyEvents == {KeyEvent("x", TRUE, FALSE)}

InitGpu ==
    /\ phase = "setup"
    /\ hostReady \in BOOLEAN
    /\ retries = 0
    /\ glassDiv = "null"
    /\ glassDisplay = "none"
    /\ renderer = "null"
    /\ litegraphCanvas = FALSE
    /\ listeners = 0
    /\ config = DefaultConfig
    /\ state = NewMagnifierState
    /\ lastKnownMousePosition = [x |-> 60, y |-> 60]
    /\ ds = [scale |-> Num(1), offset |-> <<Num(0), Num(0)>>]
    /\ rafQueue = 0
    /\ htmlOverlay = <<>>
    /\ localStorage \in StoredAtStart
    /\ frame = NoFrame
    /\ call = NoRenderer

\* init, from setup() or from its retry timer, with the renderer it constructs
GpuInit ==
    /\ phase \in {"setup", "waiting"}
    /\ hostReady \/ retries < MaxRetries
    /\ \E contextOk \in BOOLEAN, outcome \in ProgramOutcomes, canvasFound \in BOOLEAN :
          LET made == WebGLRenderer(call, config.textureFiltering, contextOk, outcome)
          IN  /\ init(isValid(made), canvasFound, TRUE)
              /\ call' = IF hostReady THEN made ELSE call
    /\ UNCHANGED <<hostReady, state, lastKnownMousePosition, ds, rafQueue,
                   localStorage, frame>>

GpuHostBecomesReady ==
    /\ phase = "waiting"
    /\ ~hostReady
    /\ hostReady' = TRUE
    /\ UNCHANGED <<phase, retries, glassDiv, glassDisplay, renderer, litegraphCanvas,
                   listeners, config, state, lastKnownMousePosition, ds, rafQueue,
                   htmlOverlay, localStorage, frame, call>>

GpuKeyDown ==
    /\ listeners > 0
    /\ \E e \in GpuKeyEvents : Becomes(handleKeyDown(Cur, e, "both"))
    /\ UNCHANGED Fixed

GpuKeyUp ==
    /\ listeners > 0
    /\ \E e \in GpuKeyEvents : Becomes(handleKeyUp(Cur, e))
    /\ UNCHANGED Fixed

SetTextureFiltering ==
    /\ call.gpu.texParameteriCalls < MaxTexParameteriCalls
    /\ \E value \in TextureFilterings :
          IF renderer = "null"
          THEN UNCHANGED <<config, state, glassDisplay, htmlOverlay, rafQueue,
                           localStorage, lastKnownMousePosition, call>>
          ELSE /\ Becomes(TextureFilteringChanged(value))
               /\ call' = updateTextureFiltering(call, value)
    /\ UNCHANGED <<phase, hostReady, retries, glassDiv, renderer, litegraphCanvas,
                   listeners, ds, frame>>

GpuSetGlassSize ==
    /\ \E value \in GpuGlassSizes :
          /\ Becomes(GlassSizeChanged(value))
          /\ call' = applyUiChanges(call, ParseIntOfNumber(value))
    /\ UNCHANGED <<phase, hostReady, retries, glassDiv, renderer, litegraphCanvas,
                   listeners, ds, frame>>

GpuFrameTick ==
    /\ rafQueue > 0
    /\ call.gpu.texImage2DCalls < MaxUploads
    /\ \E uploadOk \in BOOLEAN :
          /\ Becomes([FrameCallback(Cur) EXCEPT !.rafQueue = 0])
          /\ frame' = IF FrameGate(Cur)
                      THEN [renderCalls |-> rafQueue, result |-> render(uploadOk)]
                      ELSE [renderCalls |-> 0, result |-> "dropped"]
          /\ call' = IF FrameGate(Cur) THEN renderOnGpu(call, uploadOk) ELSE call
    /\ UNCHANGED <<phase, hostReady, retries, glassDiv, renderer, litegraphCanvas,
                   listeners, ds>>

NextGpu ==
    \/ GpuInit
    \/ GpuHostBecomesReady
    \/ GpuKeyDown
    \/ GpuKeyUp
    \/ SetTextureFiltering
    \/ GpuSetGlassSize
    \/ GpuFrameTick

SpecGpu == InitGpu /\ [][NextGpu]_vars

-----------------------------------------------------------------------------

(* UiManager.positionGlass and the specification of the glass position *)

\* glass: the left and top of glassDiv.style, not set before the first placement.
\* The glass rectangle is the glass size plus the default 2px border on each
\* side; win is the size of the window.

\* adjustForBoundaries testing for a negative edge before it moves the glass
\* off the right or bottom edge of the window
adjustForBoundaries_ChecksBeforeMove(glass, c, clientX, clientY, win) ==
    LET extent == Add(c.glassSize, Num(4))
        left1  == IF Lt(glass.left, Num(0)) THEN Num(10) ELSE glass.left
        left2  == IF Gt(Add(glass.left, extent), Num(win.innerWidth))
                  THEN Sub(Sub(Num(clientX), extent), Num(20)) ELSE left1
        top1   == IF Lt(glass.top, Num(0)) THEN Num(10) ELSE glass.top
        top2   == IF Gt(Add(glass.top, extent), Num(win.innerHeight))
                  THEN Sub(Sub(Num(clientY), extent), Num(20)) ELSE top1
    IN  [glass EXCEPT !.left = left2, !.top = top2]

adjustForBoundariesIn(glass, c, clientX, clientY, win) ==
    LET extent == Add(c.glassSize, Num(4))
        left1  == IF Gt(Add(glass.left, extent), Num(win.innerWidth))
                  THEN Sub(Sub(Num(clientX), extent), Num(20)) ELSE glass.left
        left2  == IF Lt(left1, Num(0)) THEN Num(10) ELSE left1
        top1   == IF Gt(Add(glass.top, extent), Num(win.innerHeight))
                  THEN Sub(Sub(Num(clientY), extent), Num(20)) ELSE glass.top
        top2   == IF Lt(top1, Num(0)) THEN Num(10) ELSE top1
    IN  [glass EXCEPT !.left = left2, !.top = top2]

\* the window of the specifications that do not resize it
DefaultWindow == [innerWidth |-> 500, innerHeight |-> 400]

adjustForBoundaries(glass, c, clientX, clientY) ==
    adjustForBoundariesIn(glass, c, clientX, clientY, DefaultWindow)

\* style.left and style.top as positionGlass sets them from the switch on
\* glassPosition, before adjustForBoundaries
positionGlass_Styled(c, clientX, clientY) ==
    LET half   == Div(c.glassSize, Num(2))
        before == Sub(Sub(Num(clientX), c.glassSize), Num(20))
        above  == Sub(Sub(Num(clientY), c.glassSize), Num(20))
        after  == Add(Num(clientX), Num(20))
        below  == Add(Num(clientY), Num(20))
        midX   == Sub(Num(clientX), half)
        midY   == Sub(Num(clientY), half)
        newLeft == IF c.glassPosition \in {"Left", "Top-Left", "Bottom-Left"} THEN before
                   ELSE IF c.glassPosition \in {"Right", "Top-Right", "Bottom-Right"}
                        THEN after
                   ELSE midX
        newTop  == IF c.glassPosition \in {"Top", "Top-Left", "Top-Right"} THEN above
                   ELSE IF c.glassPosition \in {"Left", "Right"} THEN midY
                   ELSE below
    IN  [set |-> TRUE, left |-> newLeft, top |-> newTop]

\* the placement positionGlass makes when followCursor is on
positionGlass_Placement(glass, c, clientX, clientY) ==
    adjustForBoundaries(positionGlass_Styled(c, clientX, clientY), c, clientX, clientY)

\* positionGlass in a window of the size win
positionGlassIn(glass, c, clientX, clientY, win) ==
    IF ~c.followCursor THEN glass
    ELSE adjustForBoundariesIn(positionGlass_Styled(c, clientX, clientY), c,
                               clientX, clientY, win)

positionGlass(glass, c, clientX, clientY) ==
    IF ~c.followCursor THEN glass
    ELSE positionGlass_Placement(glass, c, clientX, clientY)

\* the glass after handleKeyDown: placed by updateInitialPosition on activation
\* with the last known pointer position over the canvas
handleKeyDown_Glass(glass, m, e) ==
    IF /\ ~m.state.active
       /\ Activate(m, e).state.active
       /\ litegraphCanvas
       /\ OverCanvas(m.lastKnownMousePosition)
    THEN positionGlass(glass, m.config, m.lastKnownMousePosition.x,
                       m.lastKnownMousePosition.y)
    ELSE glass

\* the glass after handleMouseMove
handleMouseMove_Glass(glass, m, e) ==
    IF m.state.active /\ litegraphCanvas /\ OverCanvas([x |-> e.clientX, y |-> e.clientY])
    THEN positionGlass(glass, m.config, e.clientX, e.clientY)
    ELSE glass

\* onChange of the GlassPosition setting: the glass
GlassPositionChanged_Glass(glass, m, value) ==
    LET c == [m.config EXCEPT !.glassPosition = value]
    IN  IF m.state.active /\ ~c.followCursor
        THEN positionGlass(glass, c, m.lastKnownMousePosition.x,
                           m.lastKnownMousePosition.y)
        ELSE glass

\* pointer positions; the first and the last lie outside the canvas
GlassPointers ==
    {[x |-> 0, y |-> 0], [x |-> 60, y |-> 60], [x |-> 200, y |-> 100],
     [x |-> 400, y |-> 300], [x |-> 450, y |-> 350]}

InitGlass ==
    /\ phase = "ready"
    /\ hostReady = TRUE
    /\ retries = 0
    /\ glassDiv = "attached"
    /\ glassDisplay = "none"
    /\ renderer = "valid"
    /\ litegraphCanvas = TRUE
    /\ listeners = 1
    /\ config = DefaultConfig
    /\ state = NewMagnifierState
    /\ lastKnownMousePosition = [x |-> 0, y |-> 0]
    /\ ds = [scale |-> Num(1), offset |-> <<Num(0), Num(0)>>]
    /\ rafQueue = 0
    /\ htmlOverlay = <<>>
    /\ localStorage \in StoredAtStart
    /\ frame = NoFrame
    /\ call = [set |-> FALSE, left |-> Num(0), top |-> Num(0)]

GlassKeyDown ==
    /\ \E e \in GpuKeyEvents :
          /\ Becomes(handleKeyDown(Cur, e, "both"))
          /\ call' = handleKeyDown_Glass(call, Cur, e)
    /\ UNCHANGED <<phase, hostReady, retries, glassDiv, renderer, litegraphCanvas,
                   listeners, ds, frame>>

GlassKeyUp ==
    /\ \E e \in GpuKeyEvents : Becomes(handleKeyUp(Cur, e))
    /\ UNCHANGED Fixed

GlassMouseMove ==
    /\ \E p \in GlassPointers :
          LET e == [clientX |-> p.x, clientY |-> p.y]
          IN  /\ Becomes(handleMouseMove(Cur, e))
              /\ call' = handleMouseMove_Glass(call, Cur, e)
    /\ UNCHANGED <<phase, hostReady, retries, glassDiv, renderer, litegraphCanvas,
                   listeners, ds, frame>>

SetFollowCursor ==
    /\ \E value \in BOOLEAN : Becomes([Cur EXCEPT !.config.followCursor = value])
    /\ UNCHANGED Fixed

SetGlassPosition ==
    /\ \E value \in {"Bottom", "Top-Left", "Right"} :
          /\ Becomes([Cur EXCEPT !.config.glassPosition = value])
          /\ call' = GlassPositionChanged_Glass(call, Cur, value)
    /\ UNCHANGED <<phase, hostReady, retries, glassDiv, renderer, litegraphCanvas,
                   listeners, ds, frame>>

NextGlass ==
    \/ GlassKeyDown
    \/ GlassKeyUp
    \/ GlassMouseMove
    \/ SetFollowCursor
    \/ SetGlassPosition
    \/ FrameTick

SpecGlass == InitGlass /\ [][NextGlass]_vars

-----------------------------------------------------------------------------

(* Specification of the frames under fair delivery of the frame callbacks,
   with frames whose overlay step throws *)

\* the frame tick whose callback is ended by an exception in renderHtmlOverlays:
\* render has run, the container holds the clones appended so far, and the
\* statement that clears isRenderScheduled is not reached
FrameTickOverlayThrows ==
    /\ rafQueue > 0
    /\ FrameGate(Cur)
    /\ \E uploadOk \in BOOLEAN, k \in 0..Len(renderHtmlOverlays(Cur).htmlOverlay) :
          /\ Becomes([Cur EXCEPT !.rafQueue = 0,
                                 !.htmlOverlay =
                                     SubSeq(renderHtmlOverlays(Cur).htmlOverlay, 1, k)])
          /\ frame' = [renderCalls |-> rafQueue, result |-> render(uploadOk)]
    /\ UNCHANGED <<phase, hostReady, retries, glassDiv, renderer, litegraphCanvas,
                   listeners, ds, call>>

NextFrames ==
    \/ Setup
    \/ InitRetry
    \/ HostBecomesReady
    \/ KeyDown
    \/ KeyUp
    \/ MouseMove
    \/ FrameTick
    \/ FrameTickOverlayThrows

\* a queued frame callback is run: the queue is emptied
FrameDelivered == rafQueue > 0 /\ rafQueue' = 0

\* fair delivery: a frame callback does not stay queued for ever
SpecFrames == Init /\ [][NextFrames]_vars /\ WF_rafQueue(FrameDelivered)

-----------------------------------------------------------------------------

(* The keyboard behind the key events: which keys are down, the keydown and *)
(* keyup the browser delivers when one goes down or up, and the settings    *)
(* callbacks that change the activation combination meanwhile.              *)

\* the keys of the keyboard that are pressed and released
Keys == {"Alt", "x", "z"}

\* options of the ActivationKey setting that are chosen
ActivationKeys == {"x", "z"}

\* a session whose init() succeeded; no key is down
InitKeys ==
    /\ phase = "ready"
    /\ hostReady = TRUE
    /\ retries = 0
    /\ glassDiv = "attached"
    /\ glassDisplay = "none"
    /\ renderer = "valid"
    /\ litegraphCanvas = TRUE
    /\ listeners = 1
    /\ localStorage \in StoredAtStart
    /\ config = DefaultConfig
    /\ state = NewMagnifierState
    /\ lastKnownMousePosition = [x |-> 0, y |-> 0]
    /\ ds = [scale |-> Num(1), offset |-> <<Num(0), Num(0)>>]
    /\ rafQueue = 0
    /\ htmlOverlay = <<>>
    /\ frame = NoFrame
    /\ call = [held |-> {}]

KeysFixed == <<phase, hostReady, retries, glassDiv, renderer, litegraphCanvas,
               listeners, ds, frame>>

\* a key goes down: its keydown carries altKey as the Alt key then stands
KeyPressed ==
    /\ listeners > 0
    /\ \E k \in Keys \ call.held :
          LET held == call.held \cup {k}
          IN  /\ Becomes(handleKeyDown(Cur, KeyEvent(k, "Alt" \in held, FALSE), "both"))
              /\ call' = [held |-> held]
    /\ UNCHANGED KeysFixed

\* a key that is down goes up and its keyup is delivered
KeyReleased ==
    /\ listeners > 0
    /\ \E k \in call.held :
          LET held == call.held \ {k}
          IN  /\ Becomes(handleKeyUp(Cur, KeyEvent(k, "Alt" \in held, FALSE)))
              /\ call' = [held |-> held]
    /\ UNCHANGED KeysFixed

\* onChange of the ActivationKey setting
ActivationKeyChanged(value) == [Cur EXCEPT !.config.activationKey = ToLowerCase(value)]

SetActivationKey ==
    /\ \E value \in ActivationKeys : Becomes(ActivationKeyChanged(value))
    /\ UNCHANGED <<KeysFixed, call>>

NextKeys ==
    \/ KeyPressed
    \/ KeyReleased
    \/ SetActivationKey
    \/ SetAltRequired
    \/ MouseMove
    \/ FrameTick

SpecKeys == InitKeys /\ [][NextKeys]_vars

-----------------------------------------------------------------------------

(* The debug canvas: UiManager.debugCanvas, created by createElements or by *)
(* applyUiChanges, shown and hidden by show, hide and applyUiChanges.       *)

\* ui.debugCanvas before createDebugCanvas
NoDebugCanvas == [created |-> FALSE, attached |-> FALSE, display |-> "none"]

createDebugCanvas == [created |-> TRUE, attached |-> TRUE, display |-> "none"]

\* createElements: the debug canvas
createElements_Debug(d, c) == IF c.debugMode THEN createDebugCanvas ELSE d

\* cleanup: the debug canvas
cleanup_Debug(d) == IF d.created THEN [d EXCEPT !.attached = FALSE] ELSE d

\* show that leaves the debug canvas as it is
show_Debug_GlassOnly(d, c) == d

\* show: the debug canvas
show_Debug(d, c) ==
    IF c.debugMode /\ d.created THEN [d EXCEPT !.display = "block"] ELSE d

\* hide: the debug canvas
hide_Debug(d, c) ==
    IF c.debugMode /\ d.created THEN [d EXCEPT !.display = "none"] ELSE d

\* applyUiChanges: the debug canvas
applyUiChanges_Debug(d, m) ==
    IF m.config.debugMode
    THEN LET d1 == IF ~d.created THEN createDebugCanvas ELSE d
         IN  IF m.state.active THEN [d1 EXCEPT !.display = "block"] ELSE d1
    ELSE IF d.created THEN [d EXCEPT !.display = "none"] ELSE d

\* handleKeyDown: the debug canvas
handleKeyDown_Debug(d, m, e) ==
    IF ~m.state.active /\ Activate(m, e).state.active THEN show_Debug(d, m.config)
    ELSE d

\* handleKeyUp: the debug canvas
handleKeyUp_Debug(d, m, e) ==
    IF m.state.active /\ ~handleKeyUp(m, e).state.active THEN hide_Debug(d, m.config)
    ELSE d

\* the user sees the debug canvas
DebugCanvasDisplayed(d) == d.created /\ d.attached /\ d.display = "block"

DebugKeyEvents == {KeyEvent("x", TRUE, FALSE), KeyEvent("x", FALSE, FALSE)}

\* after the constructors and loadSettings, which may have read DebugMode on
InitDebug ==
    /\ phase = "setup"
    /\ hostReady \in BOOLEAN
    /\ retries = 0
    /\ glassDiv = "null"
    /\ glassDisplay = "none"
    /\ renderer = "null"
    /\ litegraphCanvas = FALSE
    /\ listeners = 0
    /\ \E b \in BOOLEAN : config = [DefaultConfig EXCEPT !.debugMode = b]
    /\ state = NewMagnifierState
    /\ lastKnownMousePosition = [x |-> 60, y |-> 60]
    /\ ds = [scale |-> Num(1), offset |-> <<Num(0), Num(0)>>]
    /\ rafQueue = 0
    /\ htmlOverlay = <<>>
    /\ localStorage \in StoredAtStart
    /\ frame = NoFrame
    /\ call = NoDebugCanvas

\* init() from setup() or from its retry timer
DebugInit ==
    /\ phase \in {"setup", "waiting"}
    /\ hostReady \/ retries < MaxRetries
    /\ \E webglOk \in BOOLEAN, canvasFound \in BOOLEAN, readOk \in BOOLEAN :
           /\ init(webglOk, canvasFound, readOk)
           /\ call' = IF ~hostReady THEN call
                      ELSE IF webglOk /\ canvasFound
                           THEN createElements_Debug(call, config)
                      ELSE cleanup_Debug(createElements_Debug(call, config))
    /\ UNCHANGED <<hostReady, state, lastKnownMousePosition, ds, rafQueue,
                   localStorage, frame>>

DebugKeyDown ==
    /\ listeners > 0
    /\ \E e \in DebugKeyEvents :
          /\ Becomes(DispatchKeyDown(listeners, Cur, e, "both"))
          /\ call' = handleKeyDown_Debug(call, Cur, e)
    /\ UNCHANGED <<phase, hostReady, retries, glassDiv, renderer, litegraphCanvas,
                   listeners, ds, frame>>

DebugKeyUp ==
    /\ listeners > 0
    /\ \E e \in KeyUpEvents :
          /\ Becomes(handleKeyUp(Cur, e))
          /\ call' = handleKeyUp_Debug(call, Cur, e)
    /\ UNCHANGED <<phase, hostReady, retries, glassDiv, renderer, litegraphCanvas,
                   listeners, ds, frame>>

\* onChange of the DebugMode setting
SetDebugMode ==
    /\ \E value \in BOOLEAN :
          LET m == [Cur EXCEPT !.config.debugMode = value]
          IN  Becomes(m) /\ call' = applyUiChanges_Debug(call, m)
    /\ UNCHANGED <<phase, hostReady, retries, glassDiv, renderer, litegraphCanvas,
                   listeners, ds, frame>>

\* onChange of the GlassSize setting
DebugSetGlassSize ==
    /\ \E value \in GpuGlassSizes :
          /\ Becomes(GlassSizeChanged(value))
          /\ call' = applyUiChanges_Debug(call, [Cur EXCEPT !.config.glassSize =
                                                               ParseIntOfNumber(value)])
    /\ UNCHANGED <<phase, hostReady, retries, glassDiv, renderer, litegraphCanvas,
                   listeners, ds, frame>>

NextDebug ==
    \/ DebugInit
    \/ HostBecomesReady
    \/ DebugKeyDown
    \/ DebugKeyUp
    \/ SetDebugMode
    \/ DebugSetGlassSize
    \/ SetAltRequired
    \/ FrameTick

SpecDebug == InitDebug /\ [][NextDebug]_vars

-----------------------------------------------------------------------------

(* positionGlass over glass positions, glass sizes and window sizes *)

\* the eight options of the GlassPosition setting and a value that is none
PlaceGlassPositions ==
    {"Top", "Bottom", "Left", "Right", "Top-Left", "Top-Right", "Bottom-Left",
     "Bottom-Right", "Center"}

PlaceGlassSizes == {Num(50), Num(100), Num(300)}

PlaceWindows ==
    {[innerWidth |-> 250, innerHeight |-> 150], DefaultWindow,
     [innerWidth |-> 1000, innerHeight |-> 800]}

\* pointer positions over the canvas
PlaceCursors ==
    {[x |-> 10, y |-> 10], [x |-> 60, y |-> 60], [x |-> 200, y |-> 100],
     [x |-> 400, y |-> 300]}

\* the pointer positions inside a window of the size win
CursorsIn(win) == {p \in PlaceCursors : p.x <= win.innerWidth /\ p.y <= win.innerHeight}

\* an Active session with the settings and the window drawn; the glass has not
\* been placed yet
InitPlace ==
    /\ phase = "ready"
    /\ hostReady = TRUE
    /\ retries = 0
    /\ glassDiv = "attached"
    /\ glassDisplay = "block"
    /\ renderer = "valid"
    /\ litegraphCanvas = TRUE
    /\ listeners = 1
    /\ \E position \in PlaceGlassPositions, size \in PlaceGlassSizes, follow \in BOOLEAN :
          config = [DefaultConfig EXCEPT !.glassPosition = position,
                                         !.glassSize = size,
                                         !.followCursor = follow]
    /\ state = [NewMagnifierState EXCEPT !.active = TRUE]
    /\ lastKnownMousePosition = [x |-> 0, y |-> 0]
    /\ ds = [scale |-> Num(1), offset |-> <<Num(0), Num(0)>>]
    /\ rafQueue = 0
    /\ htmlOverlay = <<>>
    /\ localStorage \in StoredAtStart
    /\ frame = NoFrame
    /\ \E win \in PlaceWindows :
          call = [glass  |-> [set |-> FALSE, left |-> Num(0), top |-> Num(0)],
                  styled |-> [set |-> FALSE, left |-> Num(0), top |-> Num(0)],
                  win    |-> win]

\* positionGlass(clientX, clientY) for a pointer position over the canvas
PositionGlass ==
    /\ \E p \in CursorsIn(call.win) :
          call' = [call EXCEPT
                      !.glass = positionGlassIn(@, config, p.x, p.y, call.win),
                      !.styled = IF config.followCursor
                                 THEN positionGlass_Styled(config, p.x, p.y) ELSE @]
    /\ UNCHANGED <<phase, hostReady, retries, glassDiv, renderer, litegraphCanvas,
                   listeners, ds, frame, config, state, glassDisplay, htmlOverlay,
                   rafQueue, localStorage, lastKnownMousePosition>>

NextPlace == PositionGlass

SpecPlace == InitPlace /\ [][NextPlace]_vars

-----------------------------------------------------------------------------

(* Properties *)

\* C1: rendering is single-flight. At most one frame callback is pending, a
\* frame tick invokes renderer.render at most once however many requests came
\* before it, and a request made while isRenderScheduled is set schedules nothing.
C1_SingleFlight ==
    /\ [](rafQueue <= 1 /\ frame.renderCalls <= 1)
    /\ [][state.isRenderScheduled => rafQueue' <= rafQueue]_vars

\* no tick has run yet, a frame is pending, and both a pointer request (the
\* cursor was taken over) and an arrow-key request have been made
C1_Witness ==
    /\ frame = NoFrame
    /\ rafQueue = 1
    /\ state.isRenderScheduled
    /\ state.x = Num(100)
    /\ config.offsetY = Num(-5)

\* C2: after initialization the overlay container is displayed iff state.active.
C2_VisibleIffActive ==
    phase = "ready" => (glassDisplay = "block" <=> state.active)

C2_Witness == phase = "ready" /\ state.active /\ glassDisplay = "block"

\* C3: while Inactive the HTML overlay container holds no clones, also after a
\* frame callback scheduled during the Active span has run.
C3_NoClonesWhileInactive == ~state.active => htmlOverlay = <<>>

\* the latest frame callback ran after deactivation and was dropped
C3_Witness == ~state.active /\ frame.result = "dropped" /\ htmlOverlay = <<>>

\* the activation combination of the configuration in force
ActivationCombo(e) ==
    ToLowerCase(e.key) = config.activationKey /\ (~config.altRequired \/ e.altKey)

KeyDownStep(e) ==
    /\ listeners > 0
    /\ \E written \in StorageWrites : Becomes(handleKeyDown(Cur, e, written))
    /\ UNCHANGED Fixed

KeyUpStep(e) ==
    /\ listeners > 0
    /\ Becomes(handleKeyUp(Cur, e))
    /\ UNCHANGED Fixed

\* C4: a keydown takes Inactive to Active exactly when its key is the activation
\* key and Alt is held or not required; otherwise the state stays Inactive and
\* the overlay hidden. Nothing but such a keydown activates.
C4_ActivationExactly ==
    [][ /\ \A e \in KeyDownEvents :
              (~state.active /\ KeyDownStep(e)) =>
                  /\ state.active' <=> ActivationCombo(e)
                  /\ ~ActivationCombo(e) => glassDisplay' = "none"
        /\ (~state.active /\ state.active') => \E e \in KeyDownEvents : KeyDownStep(e)
      ]_vars

\* activated under altRequired, the cursor snapped to the pointer
C4_Witness ==
    /\ state.active
    /\ config.altRequired
    /\ glassDisplay = "block"
    /\ state.x = Num(100)
    /\ frame = NoFrame

\* a release that qualifies for deactivation under the configuration in force
QualifyingRelease(e) ==
    \/ ToLowerCase(e.key) = config.activationKey
    \/ (config.altRequired /\ e.key = "Alt")

\* C5: while Active, a keyup of the activation key, or of Alt when altRequired,
\* deactivates, hides the container and clears the clones; a keyup while
\* Inactive (the later release of the other key) changes nothing.
C5_DeactivateOnFirstRelease ==
    /\ [](\A e \in KeyUpEvents :
             LET after == handleKeyUp(Cur, e)
             IN  /\ (state.active /\ QualifyingRelease(e)) =>
                        /\ ~after.state.active
                        /\ after.glassDisplay = "none"
                        /\ after.htmlOverlay = <<>>
                 /\ ~state.active => after = Cur)
    /\ [][ \A e \in KeyUpEvents :
              /\ (state.active /\ QualifyingRelease(e) /\ KeyUpStep(e)) =>
                    (~state.active' /\ glassDisplay' = "none" /\ htmlOverlay' = <<>>)
              /\ (~state.active /\ KeyUpStep(e)) => UNCHANGED vars
        ]_vars

\* deactivated while the frame scheduled during the Active span is still pending
C5_Witness == ~state.active /\ glassDisplay = "none" /\ rafQueue = 1 /\ config.altRequired

\* the sample rectangle agrees with the cursor, offsets, glass size and zoom in force
SampleRectCurrent ==
    LET extent == Div(config.glassSize, config.zoomFactor)
    IN  /\ state.sourceWidth = extent
        /\ state.sourceHeight = extent
        /\ Add(state.sourceX, Div(state.sourceWidth, Num(2)))
             = Add(state.x, Mul(config.offsetX, state.canvasScale))
        /\ Add(state.sourceY, Div(state.sourceHeight, Num(2)))
             = Add(state.y, Mul(config.offsetY, state.canvasScale))

\* C6: at every draw with a nonzero host scale the sample rectangle has extent
\* glassSize / zoomFactor and center cursor + offset x scale for the values in
\* force at that draw. A state with a pending frame that passes the gate is a
\* state a draw happens in.
C6_DrawUsesCurrentRect ==
    (rafQueue > 0 /\ FrameGate(Cur) /\ state.canvasScale # Num(0)) => SampleRectCurrent

\* C7: for a host scale > 0, calculateSourceRegion yields width = height =
\* glassSize / zoomFactor whatever the scale, origin = cursor + manualOffset x
\* scale - extent / 2, and a center that maps back to cursor-world + manualOffset;
\* scale 1, offset (0,0), cursor (100,100), no manual offset, glass size 300 give
\* {50, 50, 100, 100} at zoom 3 and width = height = 300 at zoom 1.
C7_SampleRect ==
    LET scale   == state.canvasScale
        extent  == Div(config.glassSize, config.zoomFactor)
        centerX == Add(state.sourceX, Div(state.sourceWidth, Num(2)))
        centerY == Add(state.sourceY, Div(state.sourceHeight, Num(2)))
        worldX  == Div(Sub(state.x, state.canvasOffsetX), scale)
        worldY  == Div(Sub(state.y, state.canvasOffsetY), scale)
        scenario == /\ scale = Num(1)
                    /\ state.canvasOffsetX = Num(0) /\ state.canvasOffsetY = Num(0)
                    /\ state.x = Num(100) /\ state.y = Num(100)
                    /\ config.offsetX = Num(0) /\ config.offsetY = Num(0)
                    /\ config.glassSize = Num(300)
    IN  (phase = "region-done" /\ Gt(scale, Num(0))) =>
            /\ state.sourceWidth = extent
            /\ state.sourceHeight = extent
            /\ state.sourceX = Sub(Add(state.x, Mul(config.offsetX, scale)), Div(extent, Num(2)))
            /\ state.sourceY = Sub(Add(state.y, Mul(config.offsetY, scale)), Div(extent, Num(2)))
            /\ Div(Sub(centerX, state.canvasOffsetX), scale) = Add(worldX, config.offsetX)
            /\ Div(Sub(centerY, state.canvasOffsetY), scale) = Add(worldY, config.offsetY)
            /\ (scenario /\ config.zoomFactor = Num(3)) =>
                   MagnifyRect(Cur) = [x |-> Num(50), y |-> Num(50),
                                       width |-> Num(100), height |-> Num(100)]
            /\ (scenario /\ config.zoomFactor = Num(1)) =>
                   (state.sourceWidth = Num(300) /\ state.sourceHeight = Num(300))

\* the first scenario computed, and a scaled, panned and offset one
C7_Witness ==
    /\ phase = "region-done"
    /\ state.canvasScale = Num(2)
    /\ state.canvasOffsetX = Num(40)
    /\ config.offsetX = Num(5)
    /\ config.zoomFactor = Norm(5, 2)
    /\ state.x = Num(37)
    /\ state.sourceWidth = Num(120)
    /\ state.sourceX = Num(-13)

\* C8: with host scale 0 calculateSourceRegion completes and leaves sourceX,
\* sourceY, sourceWidth and sourceHeight as they were.
C8_ZeroScaleLeavesRect ==
    [][ (phase = "region-args" /\ state.canvasScale = Num(0)) =>
            /\ phase' = "region-done"
            /\ state'.sourceX = state.sourceX
            /\ state'.sourceY = state.sourceY
            /\ state'.sourceWidth = state.sourceWidth
            /\ state'.sourceHeight = state.sourceHeight
      ]_vars

\* called with scale 0 on a rectangle an earlier call left
C8_Witness ==
    /\ phase = "region-done"
    /\ state.canvasScale = Num(0)
    /\ state.sourceWidth = Num(7)
    /\ state.sourceX = Num(7)
    /\ state.x = Num(100)

\* C9: rectsOverlap is symmetric, and two rectangles that only share an edge
\* (A.right = B.left or A.bottom = B.top) do not overlap.
C9_OverlapSymmetricStrict ==
    phase = "overlap-done" =>
        LET a == call.rect1[1]
            b == call.rect2[1]
        IN  /\ call.forward = call.backward
            /\ (\/ Add(a.x, a.width) = b.x
                \/ Add(a.y, a.height) = b.y) => (~call.forward /\ ~call.backward)

\* A.right = B.left with the vertical ranges crossing: no overlap either way
C9_Witness ==
    /\ phase = "overlap-done"
    /\ call.rect1[1].width = Num(10)
    /\ Add(call.rect1[1].x, call.rect1[1].width) = call.rect2[1].x
    /\ call.rect1[1].y = call.rect2[1].y
    /\ call.rect2[1].width = Num(20)
    /\ ~call.forward
    /\ ~call.backward

\* overlap as a strict comparison on all four sides, written from the rectangles' edges
Intersects(a, b) ==
    LET aRight == Add(a.x, a.width)  aBottom == Add(a.y, a.height)
        bRight == Add(b.x, b.width)  bBottom == Add(b.y, b.height)
    IN  ~(Le(aRight, b.x) \/ Le(bRight, a.x) \/ Le(aBottom, b.y) \/ Le(bBottom, a.y))

\* the visited widget is a text, video or image candidate inside the sample rectangle
ShouldBeCloned(v) ==
    /\ ElementToProcess(v.widget).kind \in {"text", "video", "image"}
    /\ Intersects(MagnifyRect(Cur), WidgetSourceRect(ElementToProcess(v.widget).rect))

ClonesFor(container, v) ==
    Cardinality({i \in 1..Len(container) :
                    container[i].node = v.node /\ container[i].index = v.index})

\* C10: after each rendered frame the overlay container holds exactly one clone
\* per candidate element (text, video, image) whose bounding box overlaps the
\* sample rectangle, none for any other widget, and nothing from earlier frames.
C10_ClonesMatchOverlap ==
    [][ (rafQueue > 0 /\ rafQueue' = 0 /\ FrameGate(Cur)) =>
            LET visited == WidgetsFrom(HostGraph, 1)
            IN  /\ \A i \in 1..Len(visited) :
                      ClonesFor(htmlOverlay', visited[i])
                          = IF ShouldBeCloned(visited[i]) THEN 1 ELSE 0
                /\ Len(htmlOverlay')
                      = Cardinality({i \in 1..Len(visited) : ShouldBeCloned(visited[i])})
      ]_vars

\* a drawn frame at {50, 50, 100, 100}: the text widget is cloned, the image whose
\* left edge is the rectangle's right edge and the far video are not
C10_Witness ==
    /\ state.active
    /\ frame.result = "drawn"
    /\ ~state.isRenderScheduled
    /\ MagnifyRect(Cur) = [x |-> Num(50), y |-> Num(50), width |-> Num(100), height |-> Num(100)]
    /\ htmlOverlay = << [node |-> 1, index |-> 1, kind |-> "text"] >>


\* C11: a clone sits at left/top = (widget origin - sample rectangle origin) x
\* zoomFactor, carries a scale transform equal to zoomFactor and keeps the
\* widget's unscaled width and height, so it is displayed at widget size x zoomFactor.
C11_ClonePlacement ==
    (phase = "clone-done" /\ call.style # <<>>) =>
        LET style  == call.style[1]
            widget == WidgetSourceRect(call.widgetRect)
            zoom   == config.zoomFactor
        IN  /\ style.left = Mul(Sub(widget.x, state.sourceX), zoom)
            /\ style.top = Mul(Sub(widget.y, state.sourceY), zoom)
            /\ style.scale = zoom
            /\ style.width = widget.width
            /\ style.height = widget.height
            /\ Mul(style.width, style.scale) = Mul(widget.width, zoom)
            /\ Mul(style.height, style.scale) = Mul(widget.height, zoom)

\* the text widget at (100, 100) of size 100 x 40 under the rectangle at (50, 50),
\* zoom 3: placed at (150, 150), size 100 x 40, scaled by 3
C11_Witness ==
    /\ phase = "clone-done"
    /\ state.sourceX = Num(50) /\ state.sourceY = Num(50)
    /\ config.zoomFactor = Num(3)
    /\ call.widgetRect = ClientRect(60, 60, 50, 20)
    /\ call.style = << [left |-> Num(150), top |-> Num(150), width |-> Num(100),
                        height |-> Num(40), scale |-> Num(3)] >>


\* the arrow keydown events, with and without Shift
ArrowEvents ==
    {e \in OffsetKeyEvents : e.key \in {"ArrowUp", "ArrowDown", "ArrowLeft", "ArrowRight"}}

\* the change an arrow keydown is to make to (offsetX, offsetY)
ArrowDelta(e) ==
    LET step == IF e.shiftKey THEN Mul(config.offsetStep, Num(5)) ELSE config.offsetStep
    IN  CASE e.key = "ArrowUp"    -> <<Num(0), Neg(step)>>
          [] e.key = "ArrowDown"  -> <<Num(0), step>>
          [] e.key = "ArrowLeft"  -> <<Neg(step), Num(0)>>
          [] e.key = "ArrowRight" -> <<step, Num(0)>>

\* C12: while Active, ArrowUp / ArrowDown subtract / add offsetStep from / to
\* offsetY and ArrowLeft / ArrowRight do so to offsetX, five times the step with
\* Shift held; the other offset is unchanged and a render is requested. With
\* offsetStep = 5, ArrowUp lowers offsetY by 5, and by 25 with Shift.
C12_ArrowKeysAdjustOffsets ==
    state.active =>
        /\ \A e \in ArrowEvents, written \in WriteOutcomes :
              LET after == handleKeyDown(Cur, e, written)
              IN  /\ after.config.offsetX = Add(config.offsetX, ArrowDelta(e)[1])
                  /\ after.config.offsetY = Add(config.offsetY, ArrowDelta(e)[2])
                  /\ after.state.isRenderScheduled
                  /\ after.rafQueue = 1
                  /\ after.state.active
        /\ config.offsetStep = Num(5) =>
              /\ handleKeyDown(Cur, KeyEvent("ArrowUp", FALSE, FALSE), "both").config.offsetY
                    = Sub(config.offsetY, Num(5))
              /\ handleKeyDown(Cur, KeyEvent("ArrowUp", FALSE, TRUE), "both").config.offsetY
                    = Sub(config.offsetY, Num(25))

\* Shift+ArrowUp then ArrowRight from offsets (0, 0): (5, -25) with a frame requested
C12_Witness ==
    /\ state.active
    /\ call.keys = 2
    /\ config.offsetX = Num(5)
    /\ config.offsetY = Num(-25)
    /\ state.isRenderScheduled
    /\ rafQueue = 1
    /\ localStorage.y = Item(<<"-", "2", "5">>)


\* the keydown events that reset under the configuration in force
ResetEvents ==
    {e \in OffsetKeyEvents :
        /\ ToLowerCase(e.key) = ToLowerCase(config.resetKey)
        /\ (~config.resetAltRequired \/ e.altKey)}

\* offsets (0, 0) in memory and "0", "0" in the store
OffsetsAreZero(m) ==
    /\ m.config.offsetX = Num(0)
    /\ m.config.offsetY = Num(0)
    /\ m.localStorage = [x |-> Item(<<"0">>), y |-> Item(<<"0">>)]

\* C13: the reset is idempotent. While Active, with the store accepting writes,
\* one reset leaves offsets (0, 0) in memory and in the store whatever they were,
\* and a second reset in a row leaves the same.
C13_ResetIdempotent ==
    state.active =>
        /\ \A e \in ResetEvents :
              LET once  == handleKeyDown(Cur, e, "both")
                  twice == handleKeyDown(once, e, "both")
              IN  /\ OffsetsAreZero(once)
                  /\ OffsetsAreZero(twice)
                  /\ twice.config = once.config
                  /\ twice.localStorage = once.localStorage
                  /\ twice.state.active
        /\ LET once  == resetOffsets(Cur, "both")
               twice == resetOffsets(once, "both")
           IN  OffsetsAreZero(once) /\ OffsetsAreZero(twice) /\ twice.config = once.config

\* one reset taken: (0, 0) in memory, "0" and "0" stored, a frame requested
C13_Witness ==
    /\ state.active
    /\ call.keys = 1
    /\ OffsetsAreZero(Cur)
    /\ state.isRenderScheduled


\* the two stored items are the decimal strings of the offsets in memory
StoredEqualsMemory(m) ==
    /\ m.localStorage.x = Item(NumberToString(m.config.offsetX))
    /\ m.localStorage.y = Item(NumberToString(m.config.offsetY))

\* the offsets a following session has after its loadSavedOffsets
NextSessionConfig(m) == loadSavedOffsets([m EXCEPT !.config = DefaultConfig], TRUE).config

\* C14: offsets are persisted on every change. After an arrow or reset keydown
\* whose writes succeed the two stored values equal offsetX / offsetY in memory,
\* and loadSavedOffsets in a following session restores exactly those offsets.
C14_OffsetsPersisted ==
    state.active =>
        \A e \in ArrowEvents \cup ResetEvents :
            LET after == handleKeyDown(Cur, e, "both")
            IN  /\ StoredEqualsMemory(after)
                /\ NextSessionConfig(after).offsetX = after.config.offsetX
                /\ NextSessionConfig(after).offsetY = after.config.offsetY

\* a following session that loaded (5, -25), the offsets of the last change
C14_Witness ==
    /\ ~state.active
    /\ state = NewMagnifierState
    /\ call.keys = 2
    /\ config.offsetX = Num(5)
    /\ config.offsetY = Num(-25)
    /\ StoredEqualsMemory(Cur)


\* the item is missing, or holds no integer a reader could take from its start
\* (after blanks and a sign there is no digit)
MissingOrMalformed(item) ==
    \/ ~item.set
    \/ LET s == item.val
           firstSolid == IF \E i \in 1..Len(s) : s[i] # " "
                         THEN CHOOSE i \in 1..Len(s) :
                                 s[i] # " " /\ \A j \in 1..(i - 1) : s[j] = " "
                         ELSE Len(s) + 1
           afterSign == IF firstSolid <= Len(s) /\ s[firstSolid] \in {"-", "+"}
                        THEN firstSolid + 1 ELSE firstSolid
       IN  ~(afterSign <= Len(s) /\ IsDigit(s[afterSign]))

\* C15: at startup a missing or malformed stored value (no parsable integer)
\* leaves that offset at 0 after loadSavedOffsets.
C15_MalformedLoadsAsZero ==
    phase = "load-done" =>
        /\ MissingOrMalformed(localStorage.x) => config.offsetX = Num(0)
        /\ MissingOrMalformed(localStorage.y) => config.offsetY = Num(0)


\* C16: persistence failures do not propagate. When the storage read throws, both
\* offsets are 0 after loadSavedOffsets; when a storage write throws during an
\* arrow or reset keydown, the offsets in memory take their new values, the
\* render is requested and the state stays Active, as with a successful write.
C16_StorageFailuresContained ==
    /\ loadSavedOffsets(Cur, FALSE).config.offsetX = Num(0)
    /\ loadSavedOffsets(Cur, FALSE).config.offsetY = Num(0)
    /\ state.active =>
          \A e \in ArrowEvents \cup ResetEvents, written \in WriteOutcomes \ {"both"} :
              LET failed == handleKeyDown(Cur, e, written)
                  stored == handleKeyDown(Cur, e, "both")
              IN  /\ failed.config = stored.config
                  /\ failed.state = stored.state
                  /\ failed.state.active
                  /\ failed.state.isRenderScheduled
                  /\ failed.rafQueue = 1
                  /\ failed.glassDisplay = "block"

\* ArrowUp whose write threw: offsetY is -5 in memory, nothing is stored, a
\* frame is requested and the magnifier is still active
C16_Witness ==
    /\ state.active
    /\ call.keys = 1
    /\ config.offsetY = Num(-5)
    /\ localStorage = [x |-> NoItem, y |-> NoItem]
    /\ state.isRenderScheduled
    /\ rafQueue = 1


\* C17: reading a configuration value does not throw. getSettingValue returns
\* the store's value when it is defined and the supplied default when the store
\* answers undefined or throws, so loadSettings completes and leaves every field
\* the store does not define at its default.
C17_SettingsFallBack ==
    /\ [][ phase = "settings-args" => phase' = "settings-done" ]_vars
    /\ [](phase = "settings-done" =>
             \A key \in SettingKeys :
                 config[SettingField[key]] =
                     IF call.settings[key].kind = "value" THEN SavedSetting[key]
                     ELSE DefaultConfig[SettingField[key]])

\* the store threw for ZoomFactor, answered undefined for GlassSize and had a
\* value for OffsetStep: defaults for the first two, the value for the third
C17_Witness ==
    /\ phase = "settings-done"
    /\ call.settings["ZoomFactor"].kind = "throws"
    /\ call.settings["GlassSize"].kind = "undefined"
    /\ call.settings["OffsetStep"].kind = "value"
    /\ config.zoomFactor = Num(3)
    /\ config.glassSize = Num(300)
    /\ config.offsetStep = Num(10)


\* C18: once initialization has failed (no valid renderer, or no host canvas
\* element) the overlay elements are removed, no listener is attached, init is
\* not run again, and in every later state the magnifier is Inactive and nothing
\* is drawn or scheduled, whatever events follow.
C18_FailedInitIsFinal ==
    /\ [](phase = "failed" =>
             /\ glassDiv = "removed"
             /\ listeners = 0
             /\ ~state.active
             /\ glassDisplay = "none"
             /\ rafQueue = 0
             /\ ~state.isRenderScheduled
             /\ frame = NoFrame
             /\ htmlOverlay = <<>>)
    /\ [][ phase = "failed" =>
              /\ phase' = "failed"
              /\ UNCHANGED <<glassDiv, renderer, litegraphCanvas, listeners, retries>>
         ]_vars

\* the renderer was invalid; a settings change and a host pan followed
C18_Witness ==
    /\ phase = "failed"
    /\ renderer = "invalid"
    /\ ~litegraphCanvas
    /\ config.zoomFactor = Num(1)
    /\ ds.scale = Num(2)
    /\ ~state.active


\* C19: when the host canvas is not available at startup, init is retried a
\* bounded number of times and then gives up: once MaxRetries retries have been
\* scheduled, init is no longer waiting for the host.
C19_RetriesAreBounded == retries >= MaxRetries => phase # "waiting"

\* the frame tick whose texture upload throws
FrameTickUploadThrows ==
    /\ rafQueue > 0
    /\ FrameGate(Cur)
    /\ Becomes([FrameCallback(Cur) EXCEPT !.rafQueue = 0])
    /\ frame' = [renderCalls |-> rafQueue, result |-> render(FALSE)]
    /\ UNCHANGED <<phase, hostReady, retries, glassDiv, renderer, litegraphCanvas,
                   listeners, ds, call>>

\* C20: when the texture upload throws during a frame, no quad is drawn in that
\* frame, the state stays Active and the pending-render flag is cleared; the
\* next render request then schedules a new frame, whose callback renders again.
C20_FailedUploadSkipsFrame ==
    /\ [][ FrameTickUploadThrows =>
              /\ frame'.result = "skipped"
              /\ state'.active
              /\ ~state'.isRenderScheduled
              /\ rafQueue' = 0
         ]_vars
    /\ []((frame.result = "skipped" /\ state.active /\ ~state.isRenderScheduled) =>
             LET requested == updateMagnifiedView(Cur)
             IN  /\ requested.state.isRenderScheduled
                 /\ requested.rafQueue = 1
                 /\ FrameGate(requested))

\* a frame was skipped, and the request that followed has a new frame pending
C20_Witness ==
    /\ frame = [renderCalls |-> 1, result |-> "skipped"]
    /\ state.active
    /\ state.isRenderScheduled
    /\ rafQueue = 1
    /\ config.offsetY = Num(-5)


\* the GL constant a filtering-mode string stands for
FilterModeOf(mode) == IF mode = "Nearest" THEN "NEAREST" ELSE "LINEAR"

\* two texture lists that differ at most in the min/mag filters
SameButFilters(before, after) ==
    /\ Len(after) = Len(before)
    /\ \A i \in 1..Len(before) :
          [after[i] EXCEPT !.minFilter = before[i].minFilter,
                           !.magFilter = before[i].magFilter] = before[i]

\* C21: updateTextureFiltering is idempotent. In every state the renderer can
\* be in, a call with the mode already in effect returns with the renderer and
\* the GPU exactly as they were (no texParameteri call is made), and a call
\* with another mode changes the recorded mode, the min and mag filter of the
\* renderer's texture and the texture binding, and nothing else: the program,
\* the buffers, the texture object, its wrap modes and its pixels stay. Calling
\* it twice with the same mode equals calling it once, and on a valid renderer
\* the recorded mode is the filter the texture really has.
C21_FilteringIdempotent ==
    /\ isValid(call) =>
          /\ call.gpu.textures[call.r.texture].minFilter = call.r.currentFilteringMode
          /\ call.gpu.textures[call.r.texture].magFilter = call.r.currentFilteringMode
    /\ \A mode \in TextureFilterings \cup {"Cubic"} :
          LET after == updateTextureFiltering(call, mode)
          IN  /\ updateTextureFiltering(after, mode) = after
              /\ call.r.currentFilteringMode = FilterModeOf(mode) => after = call
              /\ [after.r EXCEPT !.currentFilteringMode = call.r.currentFilteringMode]
                     = call.r
              /\ SameButFilters(call.gpu.textures, after.gpu.textures)
              /\ [after.gpu EXCEPT !.textures = call.gpu.textures,
                                   !.bound = call.gpu.bound,
                                   !.texParameteriCalls = call.gpu.texParameteriCalls]
                     = call.gpu
              /\ (isValid(call) /\ call.r.currentFilteringMode # FilterModeOf(mode)) =>
                    /\ after.gpu.textures[call.r.texture].minFilter = FilterModeOf(mode)
                    /\ after.gpu.textures[call.r.texture].magFilter = FilterModeOf(mode)
                    /\ after.gpu.texParameteriCalls = call.gpu.texParameteriCalls + 2

\* the setting went to Nearest on a valid renderer that had drawn a frame, and
\* the texture took the new filter
C21_Witness ==
    /\ isValid(call)
    /\ config.textureFiltering = "Nearest"
    /\ call.r.currentFilteringMode = "NEAREST"
    /\ call.gpu.textures[call.r.texture].minFilter = "NEAREST"
    /\ call.gpu.texParameteriCalls = 8
    /\ call.gpu.drawArraysCalls > 0


\* C22: the GPU resources are created at most once per session. Through init
\* retries, activations, frames and settings changes there is never more than
\* one context, one program, two buffers and one texture object; a valid
\* renderer holds exactly these; and a frame applied to any reachable state
\* of a valid renderer creates nothing: it changes only the pixels of the one
\* texture (and the binding and the call counts).
C22_ResourcesCreatedOnce ==
    /\ call.gpu.contexts <= 1
    /\ call.gpu.programs <= 1
    /\ call.gpu.buffers <= 2
    /\ Len(call.gpu.textures) <= 1
    /\ isValid(call) =>
          /\ call.r.program = 1 /\ call.r.texture = 1
          /\ call.r.positionBuffer = 1 /\ call.r.texCoordBuffer = 2
          /\ call.gpu.buffers = 2 /\ Len(call.gpu.textures) = 1
          /\ \A uploadOk \in BOOLEAN :
                LET after == renderOnGpu(call, uploadOk)
                IN  /\ after.r = call.r
                    /\ Len(after.gpu.textures) = 1
                    /\ [after.gpu.textures[1] EXCEPT !.uploads = call.gpu.textures[1].uploads]
                           = call.gpu.textures[1]
                    /\ after.gpu.textures[1].uploads =
                           call.gpu.textures[1].uploads + (IF uploadOk THEN 1 ELSE 0)
                    /\ [after.gpu EXCEPT !.textures = call.gpu.textures,
                                         !.bound = call.gpu.bound,
                                         !.texImage2DCalls = call.gpu.texImage2DCalls,
                                         !.drawArraysCalls = call.gpu.drawArraysCalls]
                           = call.gpu

\* init was retried before the host was ready, then two frames were uploaded
\* and drawn and the filtering was changed, all with the same objects
C22_Witness ==
    /\ retries > 0
    /\ isValid(call)
    /\ call.gpu.textures[1].uploads = 2
    /\ call.gpu.drawArraysCalls = 2
    /\ call.r.currentFilteringMode = "NEAREST"
    /\ call.gpu.programs = 1
    /\ call.gpu.buffers = 2


\* C23: every draw is gated. A frame tick calls renderer.render only if, when
\* the callback runs, the state is Active, the renderer exists and is valid and
\* the host canvas reference is set; otherwise (the state went Inactive after
\* the frame was scheduled) it calls nothing, leaves no clones and still clears
\* the pending flag. Wherever the gate passes, the renderer in hand is one that
\* passed isValid, although the gate itself only tests that it is not null.
C23_DrawsAreGated ==
    /\ [][ (rafQueue > 0 /\ rafQueue' = 0) =>
              /\ ~state'.isRenderScheduled
              /\ IF state.active /\ renderer = "valid" /\ litegraphCanvas
                 THEN frame'.renderCalls = 1 /\ frame'.result \in {"drawn", "skipped"}
                 ELSE /\ frame' = [renderCalls |-> 0, result |-> "dropped"]
                      /\ htmlOverlay' = <<>>
         ]_vars
    /\ [](FrameGate(Cur) => renderer = "valid")
    /\ [](state.active => renderer = "valid" /\ litegraphCanvas)
    /\ [](~state.active =>
             LET after == FrameCallback([Cur EXCEPT !.state.isRenderScheduled = TRUE])
             IN  ~FrameGate(Cur) /\ ~after.state.isRenderScheduled
                 /\ after.htmlOverlay = <<>>)

\* a frame was scheduled while Active and its callback ran after the release:
\* nothing was drawn, the flag is clear and the queue is empty
C23_Witness ==
    /\ phase = "ready"
    /\ ~state.active
    /\ frame = [renderCalls |-> 0, result |-> "dropped"]
    /\ ~state.isRenderScheduled
    /\ rafQueue = 0
    /\ glassDisplay = "none"


\* C24: on every Inactive to Active transition the cursor state is set to the
\* last known pointer position converted to canvas pixels, the sample rectangle
\* is recomputed from it and a render is requested, in the activating keydown
\* itself. Stated for the activating keydown applied to every Inactive state
\* with listeners attached.
C24_ActivationSnapsToPointer ==
    (listeners > 0 /\ ~state.active) =>
        \A e \in KeyDownEvents :
            ActivationCombo(e) =>
                LET after  == handleKeyDown(Cur, e, "both")
                    extent == Div(after.config.glassSize, after.config.zoomFactor)
                IN  /\ after.state.active
                    /\ after.state.x = PixelX(lastKnownMousePosition.x)
                    /\ after.state.y = PixelY(lastKnownMousePosition.y)
                    /\ after.state.canvasScale # Num(0) =>
                          /\ after.state.sourceWidth = extent
                          /\ Add(after.state.sourceX, Div(extent, Num(2)))
                               = Add(after.state.x,
                                     Mul(after.config.offsetX, after.state.canvasScale))
                          /\ Add(after.state.sourceY, Div(extent, Num(2)))
                               = Add(after.state.y,
                                     Mul(after.config.offsetY, after.state.canvasScale))
                    /\ after.state.isRenderScheduled
                    /\ after.rafQueue = 1


\* what a pointer move while Active is claimed to do
MoveRefreshes(p) ==
    LET after  == handleMouseMove(Cur, [clientX |-> p.x, clientY |-> p.y])
        extent == Div(config.glassSize, config.zoomFactor)
    IN  /\ after.state.active
        /\ after.state.x = PixelX(p.x)
        /\ after.state.y = PixelY(p.y)
        /\ after.lastKnownMousePosition = p
        /\ after.state.canvasScale = ds.scale
        /\ after.state.canvasScale # Num(0) =>
              /\ after.state.sourceWidth = extent
              /\ after.state.sourceHeight = extent
              /\ Add(after.state.sourceX, Div(extent, Num(2)))
                   = Add(PixelX(p.x), Mul(config.offsetX, ds.scale))
              /\ Add(after.state.sourceY, Div(extent, Num(2)))
                   = Add(PixelY(p.y), Mul(config.offsetY, ds.scale))
        /\ after.state.isRenderScheduled
        /\ after.rafQueue = 1
        /\ after.config = config

\* C25 as stated: every pointer move received while Active updates the cursor
\* position, recomputes the sample rectangle, requests a render and leaves the
\* state Active.
C25_EveryMoveRefreshes ==
    (listeners > 0 /\ state.active) => \A p \in PointerPositions : MoveRefreshes(p)

\* C25, amended: a pointer move received while Active at a position over the
\* host canvas updates the cursor position, recomputes the sample rectangle
\* for the host transform, offsets, glass size and zoom in force, requests a
\* render and leaves the state Active; a move at a position outside the canvas
\* records the position as last known and changes nothing else.
C25_MoveOverCanvasRefreshes ==
    (listeners > 0 /\ state.active) =>
        \A p \in PointerPositions :
            IF OverCanvas(p) THEN MoveRefreshes(p)
            ELSE handleMouseMove(Cur, [clientX |-> p.x, clientY |-> p.y])
                    = [Cur EXCEPT !.lastKnownMousePosition = p]

\* Active with the host canvas zoomed to 2 and panned: the sample rectangle was
\* recomputed for the pointer at (60, 60), and a frame is pending
C25_Witness ==
    /\ state.active
    /\ lastKnownMousePosition = [x |-> 60, y |-> 60]
    /\ state.x = Num(100)
    /\ state.canvasScale = Num(2)
    /\ state.sourceX = Num(50)
    /\ state.isRenderScheduled
    /\ rafQueue = 1


\* C26: with Follow Cursor disabled the magnifier window stays where it was
\* activated. The activating keydown, with the pointer over the canvas, places
\* the window from the pointer position (as the configured glass position and
\* the window boundaries prescribe), and a pointer move during the activation
\* span leaves the window where it is.
C26_StaysWhereActivated ==
    ~config.followCursor =>
        /\ (~state.active /\ OverCanvas(lastKnownMousePosition)) =>
              \A e \in GpuKeyEvents :
                  handleKeyDown_Glass(call, Cur, e)
                      = positionGlass_Placement(call, config, lastKnownMousePosition.x,
                                                   lastKnownMousePosition.y)
        /\ state.active =>
              \A p \in GlassPointers :
                  handleMouseMove_Glass(call, Cur, [clientX |-> p.x, clientY |-> p.y])
                      = call


\* the keydowns of the arrow keys and of the reset key, with and without Alt
OffsetControlEvents ==
    {e \in OffsetKeyEvents :
        \/ e.key \in {"ArrowUp", "ArrowDown", "ArrowLeft", "ArrowRight"}
        \/ ToLowerCase(e.key) = ToLowerCase(config.resetKey)}

\* C27: the offset controls work only while Active. An arrow-key or reset-key
\* keydown received while Inactive, whatever its modifiers and whether or not
\* the store would accept a write, changes nothing at all: offsetX, offsetY and
\* the stored values stay, no render is requested and the state stays Inactive.
C27_OffsetKeysNeedActive ==
    (listeners > 0 /\ ~state.active) =>
        \A e \in OffsetControlEvents, written \in WriteOutcomes :
            LET after == handleKeyDown(Cur, e, written)
            IN  /\ after.config.offsetX = config.offsetX
                /\ after.config.offsetY = config.offsetY
                /\ after.localStorage = localStorage
                /\ after.rafQueue = rafQueue
                /\ ~after.state.isRenderScheduled
                /\ after = Cur

\* a session that loaded the offsets (7, -12) and took two keydowns: Inactive,
\* with the offsets and the stored values as loaded and nothing requested
C27_Witness ==
    /\ ~state.active
    /\ call.keys = 2
    /\ config.offsetX = Num(7)
    /\ config.offsetY = Num(-12)
    /\ localStorage = [x |-> Item(<<"7">>), y |-> Item(<<"-", "1", "2">>)]
    /\ rafQueue = 0
    /\ ~state.isRenderScheduled

\* the keydowns of the reset key without Alt
ResetKeyAlone ==
    {e \in OffsetKeyEvents :
        ToLowerCase(e.key) = ToLowerCase(config.resetKey) /\ ~e.altKey}

\* C28: the reset key has its own modifier requirement. While Active with
\* resetAltRequired true, a keydown of the reset key without Alt changes
\* nothing: both offsets and the stored values stay and no render is requested.
\* With resetAltRequired false the reset key alone zeroes both offsets,
\* requests a render, and the store holds "0" and "0" when it accepts the writes.
C28_ResetModifier ==
    (listeners > 0 /\ state.active) =>
        \A e \in ResetKeyAlone, written \in WriteOutcomes :
            LET after == handleKeyDown(Cur, e, written)
            IN  IF config.resetAltRequired
                THEN after = Cur
                ELSE /\ after.config.offsetX = Num(0)
                     /\ after.config.offsetY = Num(0)
                     /\ after.state.isRenderScheduled
                     /\ written = "both" => OffsetsAreZero(after)

\* with resetAltRequired false, one keydown zeroed the loaded offsets (7, -12)
\* in memory and in the store
C28_Witness ==
    /\ state.active
    /\ ~config.resetAltRequired
    /\ call.keys = 1
    /\ OffsetsAreZero(Cur)
    /\ state.isRenderScheduled


\* the sample rectangle of m agrees with its cursor, offsets, glass size and zoom
\* and with the host transform in force
RectCurrent(m) ==
    LET extent == Div(m.config.glassSize, m.config.zoomFactor)
    IN  /\ m.state.canvasScale = ds.scale
        /\ m.state.sourceWidth = extent
        /\ m.state.sourceHeight = extent
        /\ Add(m.state.sourceX, Div(extent, Num(2)))
             = Add(m.state.x, Mul(m.config.offsetX, ds.scale))
        /\ Add(m.state.sourceY, Div(extent, Num(2)))
             = Add(m.state.y, Mul(m.config.offsetY, ds.scale))

\* the sample rectangle as a tuple
Rect(s) == <<s.sourceX, s.sourceY, s.sourceWidth, s.sourceHeight>>

\* the render requests that can arrive in the current state: pointer moves over
\* the canvas, arrow and reset keydowns, zoom and glass-size changes
Requests ==
    {handleMouseMove(Cur, [clientX |-> p.x, clientY |-> p.y]) :
        p \in {q \in PointerPositions : OverCanvas(q)}}
    \cup {handleKeyDown(Cur, e, "both") :
            e \in {k \in KeyDownEvents : k.key \in {"ArrowUp", "ArrowRight"}}}
    \cup {ZoomFactorChanged(value) : value \in ZoomFactors}
    \cup {GlassSizeChanged(value) : value \in GlassSizes}

\* C29: a coalesced request is not lost. While a frame is pending, a further
\* request schedules nothing more but recomputes the sample rectangle for the
\* latest cursor, offsets, zoom and glass size, and the pending callback would
\* hand exactly that rectangle to the shader; the rectangle changes only in a
\* request, and the frame tick draws with the rectangle as it finds it.
C29_CoalescedRequestKept ==
    /\ []((listeners > 0 /\ state.active /\ state.isRenderScheduled) =>
            \A after \in Requests :
                /\ after.rafQueue = rafQueue
                /\ after.state.isRenderScheduled
                /\ RectCurrent(after)
                /\ FrameGate(after)
                /\ renderUniforms(after).uvWidth
                       = Div(Div(after.config.glassSize, after.config.zoomFactor),
                             Num(CanvasElement.width))
                /\ Add(renderUniforms(after).uvX, Div(renderUniforms(after).uvWidth, Num(2)))
                       = Div(Add(after.state.x, Mul(after.config.offsetX, ds.scale)),
                             Num(CanvasElement.width)))
    /\ [][ Rect(state') # Rect(state) =>
              /\ state'.active /\ state'.isRenderScheduled
              /\ RectCurrent([config |-> config', state |-> state'])
         ]_vars
    /\ [][ (rafQueue > 0 /\ rafQueue' = 0) => Rect(state') = Rect(state) ]_vars

\* before the first tick: the frame was scheduled at zoom 3, then an arrow key
\* and a change to zoom 1 arrived; the rectangle is the one for zoom 1
C29_Witness ==
    /\ frame = NoFrame
    /\ state.active
    /\ rafQueue = 1
    /\ state.x = Num(100)
    /\ config.offsetY = Num(-5)
    /\ config.zoomFactor = Num(1)
    /\ state.sourceWidth = Num(300)
    /\ state.sourceY = Num(-55)


\* C30: under fair delivery of frame callbacks the pending-render flag is
\* eventually cleared after every scheduled frame, whether the frame draws, is
\* dropped after a deactivation, or fails in the texture upload or the overlay
\* step; so a flag left set never blocks later requests.
C30_FlagEventuallyCleared ==
    state.isRenderScheduled ~> ~state.isRenderScheduled


\* C31: no activation span outlives its keys. Once the keyup of every key that
\* was down during the span has been delivered, so that no key is down, the
\* state is Inactive and the overlay hidden, also when the ActivationKey or the
\* AltRequired setting was changed while the magnifier was Active.
C31_SpanEndsWithItsKeys ==
    call.held = {} => (~state.active /\ glassDisplay = "none" /\ htmlOverlay = <<>>)


\* C32: when altRequired is false, a keyup of Alt while Active leaves the state
\* Active and the overlay visible, as does the keyup of any key other than the
\* activation key; the keyup of the activation key (in either case of the
\* letter) makes the state Inactive, hides the overlay and clears the clones.
C32_AltReleaseIgnoredUnlessRequired ==
    (listeners > 0 /\ state.active /\ ~config.altRequired) =>
        \A e \in KeyUpEvents :
            LET after == handleKeyUp(Cur, e)
            IN  IF ToLowerCase(e.key) = config.activationKey
                THEN /\ ~after.state.active
                     /\ after.glassDisplay = "none"
                     /\ after.htmlOverlay = <<>>
                ELSE /\ after = Cur
                     /\ after.state.active
                     /\ after.glassDisplay = glassDisplay

\* Active with the overlay displayed and clones in it while Alt is not
\* required: the state in which a keyup of Alt arrives and changes nothing
C32_Witness ==
    /\ listeners > 0
    /\ state.active
    /\ ~config.altRequired
    /\ glassDisplay = "block"
    /\ htmlOverlay # <<>>
    /\ handleKeyUp(Cur, KeyEvent("Alt", FALSE, FALSE)).state.active
    /\ KeyEvent("Alt", FALSE, FALSE) \in KeyUpEvents


\* C33: activation is idempotent under key auto-repeat. A keydown of the
\* activation combination received while already Active changes neither the
\* state, the cursor position, the sample rectangle nor the offsets, stores
\* nothing and requests no render: the handler leaves everything as it was.
C33_RepeatedActivationNoOp ==
    (listeners > 0 /\ state.active) =>
        \A e \in KeyDownEvents, written \in WriteOutcomes :
            ActivationCombo(e) =>
                LET after == handleKeyDown(Cur, e, written)
                IN  /\ after.state.active
                    /\ after.state.x = state.x /\ after.state.y = state.y
                    /\ Rect(after.state) = Rect(state)
                    /\ after.config.offsetX = config.offsetX
                    /\ after.config.offsetY = config.offsetY
                    /\ after.state.isRenderScheduled = state.isRenderScheduled
                    /\ after.rafQueue = rafQueue
                    /\ after = Cur

\* Active with its frame already drawn, the pointer over the canvas away from
\* the cursor taken at activation, and an offset set: a repeated activation
\* keydown that ran the activation again would move the cursor and schedule
C33_Witness ==
    /\ listeners > 0
    /\ state.active
    /\ ~state.isRenderScheduled
    /\ rafQueue = 0
    /\ frame.result = "drawn"
    /\ config.offsetY # Num(0)
    /\ OverCanvas(lastKnownMousePosition)
    /\ \E e \in KeyDownEvents : ActivationCombo(e)


\* C34: a pointer-move event received while Inactive updates only the last
\* known pointer position: the cursor, the sample rectangle, the glass
\* position, the offsets and the pending-render flag stay as they were and no
\* frame is scheduled. The same holds for a pointer move while Active whose
\* position lies outside the host canvas.
C34_MoveOnlyTracked ==
    listeners > 0 =>
        \A p \in GlassPointers :
            (~state.active \/ ~OverCanvas(p)) =>
                LET e == [clientX |-> p.x, clientY |-> p.y]
                    after == handleMouseMove(Cur, e)
                IN  /\ after.lastKnownMousePosition = p
                    /\ after.state.x = state.x /\ after.state.y = state.y
                    /\ Rect(after.state) = Rect(state)
                    /\ handleMouseMove_Glass(call, Cur, e) = call
                    /\ after.config.offsetX = config.offsetX
                    /\ after.config.offsetY = config.offsetY
                    /\ after.state.isRenderScheduled = state.isRenderScheduled
                    /\ after.rafQueue = rafQueue
                    /\ after = [Cur EXCEPT !.lastKnownMousePosition = p]

\* Active with the glass placed and the frame of the span drawn, after the
\* pointer left the canvas: the last known position is outside while the cursor
\* is still where it was over the canvas, and nothing is pending
C34_Witness ==
    /\ state.active
    /\ call.set
    /\ ~OverCanvas(lastKnownMousePosition)
    /\ lastKnownMousePosition = [x |-> 450, y |-> 350]
    /\ state.x = PixelX(200) /\ state.y = PixelY(100)
    /\ ~state.isRenderScheduled
    /\ rafQueue = 0
    /\ frame.result = "drawn"


\* C35: whatever the number of init retries while the host is not ready, the
\* overlay elements and the renderer are created at most once and the keydown,
\* keyup and mousemove listeners are attached at most once. While init has not
\* passed the host check nothing is created and nothing listens; the call that
\* passes it creates them, and no later step creates or attaches again. So one
\* keydown event runs one handler: it causes at most one offset adjustment.
C35_CreatedAndAttachedOnce ==
    /\ [](/\ listeners <= 1
          /\ phase \in {"setup", "waiting"} =>
                (glassDiv = "null" /\ renderer = "null" /\ listeners = 0)
          /\ listeners > 0 =>
                \A e \in KeyDownEvents, written \in WriteOutcomes :
                    DispatchKeyDown(listeners, Cur, e, written)
                        = handleKeyDown(Cur, e, written))
    /\ [][ /\ phase \in {"ready", "failed"} =>
                UNCHANGED <<phase, glassDiv, renderer, litegraphCanvas, listeners,
                            retries>>
           /\ listeners' \in {listeners, listeners + 1}
           /\ glassDiv # "null" => glassDiv' = glassDiv
           /\ renderer # "null" => renderer' = renderer
         ]_vars

\* init passed the host check after the retries the model allows, and one
\* ArrowUp keydown followed during an Active span: the offset moved by one step
C35_Witness ==
    /\ phase = "ready"
    /\ retries = MaxRetries
    /\ glassDiv = "attached"
    /\ renderer = "valid"
    /\ listeners = 1
    /\ state.active
    /\ config.offsetX = Num(0)
    /\ config.offsetY = Num(-5)


\* C36: after a successful initialization, in every reachable state the debug
\* canvas is displayed if and only if the state is Active and debugMode is
\* enabled, for any interleaving of activation, deactivation and changes of the
\* DebugMode setting (before and after initialization) and of the glass size.
C36_DebugCanvasIffActiveAndDebug ==
    phase = "ready" => (DebugCanvasDisplayed(call) <=> (state.active /\ config.debugMode))

\* Active with debugMode on and the debug canvas shown, in a session that
\* retried init before the host was ready
C36_Witness ==
    /\ phase = "ready"
    /\ retries > 0
    /\ state.active
    /\ config.debugMode
    /\ DebugCanvasDisplayed(call)


\* the side the configuration asks for: one of the eight, else Bottom
ConfiguredSide ==
    IF config.glassPosition \in PlaceGlassPositions \ {"Center"}
    THEN config.glassPosition ELSE "Bottom"

\* a glass of the configured size with left and top as in g lies on the
\* configured side of the pointer p, 20 px away from it
OnConfiguredSide(g, p) ==
    LET right  == Add(g.left, config.glassSize)
        bottom == Add(g.top, config.glassSize)
        centreX == Add(g.left, Div(config.glassSize, Num(2)))
        centreY == Add(g.top, Div(config.glassSize, Num(2)))
        gap == Num(20)
    IN  /\ CASE ConfiguredSide \in {"Left", "Top-Left", "Bottom-Left"} ->
                    Sub(Num(p.x), right) = gap
             [] ConfiguredSide \in {"Right", "Top-Right", "Bottom-Right"} ->
                    Sub(g.left, Num(p.x)) = gap
             [] OTHER -> centreX = Num(p.x)
        /\ CASE ConfiguredSide \in {"Top", "Top-Left", "Top-Right"} ->
                    Sub(Num(p.y), bottom) = gap
             [] ConfiguredSide \in {"Bottom", "Bottom-Left", "Bottom-Right"} ->
                    Sub(g.top, Num(p.y)) = gap
             [] OTHER -> centreY = Num(p.y)

====
